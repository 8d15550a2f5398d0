----------------------------- MODULE CJsonString -----------------------------
(***************************************************************************)
(* The strings of cJSON as bytes: parse_string, which sizes its output in  *)
(* a first pass and fills it in a second, and print_string_ptr, which does *)
(* the same the other way.  A literal is put together from pieces, each an *)
(* escape or a character with the UTF-16 code units it stands for, so that *)
(* what it means is known without reading it.                              *)
(***************************************************************************)
EXTENDS Integers, Sequences, SequencesExt

CONSTANTS
    Piece,     \* the pieces: [bytes, units]; units <<-1>> is no valid escape
    MaxPieces  \* bound: pieces in a literal

NUL == 0
Quote == 34
Backslash == 92
Bytes == 0..255

ASSUME StringAssumption == MaxPieces \in Nat /\ \A p \in Piece : p.bytes \in Seq(Bytes)

VARIABLE pieces  \* the literal so far
-----------------------------------------------------------------------------
(* parse_string: lit holds the bytes after the opening quote *)

(* The first pass: the place of the closing quote, none when it is 0, and  *)
(* the escapes on the way.                                                 *)
Scan(lit) ==
    LET from[n \in 1..Len(lit) + 2] ==
            IF n > Len(lit) THEN [end |-> 0, skipped |-> 0]
            ELSE IF lit[n] = Quote THEN [end |-> n, skipped |-> 0]
            ELSE IF lit[n] # Backslash THEN from[n + 1]
            ELSE IF n = Len(lit) THEN [end |-> 0, skipped |-> 0]
            ELSE LET rest == from[n + 2] IN [rest EXCEPT !.skipped = @ + 1]
    IN from[1]

(* The bytes allocated for the output, its final 0 included.               *)
Room(lit) == Scan(lit).end - Scan(lit).skipped + 1

HexDigit(c) == CASE c \in 48..57 -> c - 48
                 [] c \in 65..70 -> c - 55
                 [] c \in 97..102 -> c - 87
                 [] OTHER -> -1

(* parse_hex4: 0 when one of the four is no digit.                         *)
Hex4(lit, p) ==
    LET d == [k \in 0..3 |-> HexDigit(lit[p + k])]
    IN IF \E k \in 0..3 : d[k] = -1 THEN 0
       ELSE ((d[0] * 16 + d[1]) * 16 + d[2]) * 16 + d[3]

High(u) == u \in 55296..56319   \* 0xD800..0xDBFF
Low(u) == u \in 56320..57343    \* 0xDC00..0xDFFF
Joined(hi, lo) == 65536 + (hi % 1024) * 1024 + (lo % 1024)

Utf8(c) ==
    LET tail(n) == 128 + ((c \div n) % 64) IN
    IF c < 128 THEN <<c>>
    ELSE IF c < 2048 THEN <<192 + (c \div 64), tail(1)>>
    ELSE IF c < 65536 THEN <<224 + (c \div 4096), tail(64), tail(1)>>
    ELSE <<240 + (c \div 262144), tail(4096), tail(64), tail(1)>>

(* utf16_literal_to_utf8 of the \u at p, before the closing quote at end.  *)
Utf16_NoSecond(lit, p, end) ==
    IF end - p < 6 \/ Low(Hex4(lit, p + 2)) THEN [used |-> 0, bytes |-> <<>>]
    ELSE [used |-> 6, bytes |-> Utf8(Hex4(lit, p + 2))]
Utf16(lit, p, end) ==
    LET none == [used |-> 0, bytes |-> <<>>]
        first == Hex4(lit, p + 2)
        second == Hex4(lit, p + 8)
    IN IF end - p < 6 THEN none
       ELSE IF Low(first) THEN none
       ELSE IF ~High(first) THEN [used |-> 6, bytes |-> Utf8(first)]
       ELSE IF end - p < 12 THEN none
       ELSE IF lit[p + 6] # Backslash \/ lit[p + 7] # 117 \/ ~Low(second) THEN none
       ELSE [used |-> 12, bytes |-> Utf8(Joined(first, second))]

(* The escape at p.                                                        *)
Escape(lit, p, end) ==
    LET c == lit[p + 1]
        char(b) == [used |-> 2, bytes |-> <<b>>]
    IN CASE c = 98 -> char(8) [] c = 102 -> char(12) [] c = 110 -> char(10)
         [] c = 114 -> char(13) [] c = 116 -> char(9)
         [] c \in {Quote, Backslash, 47} -> char(c)
         [] c = 117 -> Utf16(lit, p, end)
         [] OTHER -> [used |-> 0, bytes |-> <<>>]

(* The second pass; what it has written when it fails is in out too.       *)
Fill(lit) ==
    LET end == Scan(lit).end
        from[p \in 1..end + 1] ==
            IF p >= end THEN [ok |-> TRUE, out |-> <<>>]
            ELSE IF lit[p] # Backslash
            THEN LET rest == from[p + 1] IN [rest EXCEPT !.out = <<lit[p]>> \o @]
            ELSE LET e == Escape(lit, p, end) IN
                 IF e.used = 0 THEN [ok |-> FALSE, out |-> <<>>]
                 ELSE LET rest == from[p + e.used] IN [rest EXCEPT !.out = e.bytes \o @]
    IN from[1]

ParseString(lit) == IF Scan(lit).end = 0 THEN [ok |-> FALSE, out |-> <<>>] ELSE Fill(lit)

(* What C sees of a string.                                                *)
CString(s) == LET nul == SelectInSeq(s, LAMBDA b : b = NUL)
              IN IF nul = 0 THEN s ELSE SubSeq(s, 1, nul - 1)
-----------------------------------------------------------------------------
(* print_string_ptr *)

Short == [b \in {8, 9, 10, 12, 13, Quote, Backslash} |->
            CASE b = 8 -> 98 [] b = 9 -> 116 [] b = 10 -> 110 [] b = 12 -> 102 [] b = 13 -> 114
              [] OTHER -> b]

(* The characters an escape adds, counted in the first pass.               *)
Extra_Four(b) == IF b \in DOMAIN Short THEN 1 ELSE IF b < 32 THEN 4 ELSE 0
Extra(b) == IF b \in DOMAIN Short THEN 1 ELSE IF b < 32 THEN 5 ELSE 0

OutputLength(s) ==
    LET upto[n \in 0..Len(s)] == IF n = 0 THEN 0 ELSE upto[n - 1] + 1 + Extra(s[n])
    IN upto[Len(s)]

(* The bytes the second pass writes for one.                               *)
HexChar(d) == IF d < 10 THEN 48 + d ELSE 87 + d
Escaped(b) == IF b \in DOMAIN Short THEN <<Backslash, Short[b]>>
              ELSE IF b < 32 THEN <<Backslash, 117, 48, 48, HexChar(b \div 16), HexChar(b % 16)>>
              ELSE <<b>>

(* The quotes are put where the first pass says.                           *)
PrintString(s) ==
    LET body == FlattenSeq([n \in 1..Len(s) |-> Escaped(s[n])])
        n == OutputLength(s)
    IN [k \in 1..n + 2 |-> IF k \in {1, n + 2} THEN Quote
                           ELSE IF k - 1 \in DOMAIN body THEN body[k - 1] ELSE NUL]
-----------------------------------------------------------------------------
Literal == FlattenSeq([n \in 1..Len(pieces) |-> pieces[n].bytes])

AddPiece(p) == Len(pieces) < MaxPieces /\ pieces' = Append(pieces, p)

StringInit == pieces = <<>>
StringNext == \E p \in Piece : AddPiece(p)
StringSpec == StringInit /\ [][StringNext]_pieces
-----------------------------------------------------------------------------
(* Reference definitions *)

(* The code units before the first closing quote, which stands for none.   *)
Units == LET open == SelectInSeq(pieces, LAMBDA p : p.bytes = <<Quote>>)
             said == IF open = 0 THEN pieces ELSE SubSeq(pieces, 1, open - 1)
         IN FoldLeft(LAMBDA t, p : t \o p.units, <<>>, said)

(* Every unit is valid and every surrogate is in a pair.                   *)
WellPaired(us) == \A n \in DOMAIN us :
    /\ us[n] # -1
    /\ High(us[n]) => n < Len(us) /\ Low(us[n + 1])
    /\ Low(us[n]) => n > 1 /\ High(us[n - 1])

CodePoints(us) ==
    LET from[n \in 1..Len(us) + 2] ==
            IF n > Len(us) THEN <<>>
            ELSE IF High(us[n]) THEN <<65536 + (us[n] - 55296) * 1024 + (us[n + 1] - 56320)>> \o from[n + 2]
            ELSE <<us[n]>> \o from[n + 1]
    IN from[1]

(* The code points of UTF-8 bytes.                                         *)
Decoded(s) ==
    LET size(b) == IF b < 128 THEN 1 ELSE IF b < 224 THEN 2 ELSE IF b < 240 THEN 3 ELSE 4
        lead(b) == CASE size(b) = 1 -> b [] size(b) = 2 -> b - 192 [] size(b) = 3 -> b - 224
                     [] size(b) = 4 -> b - 240
        from[n \in 1..Len(s) + 4] ==
            IF n > Len(s) THEN <<>>
            ELSE <<FoldLeft(LAMBDA c, b : c * 64 + (b - 128), lead(s[n]),
                            SubSeq(s, n + 1, n + size(s[n]) - 1))>> \o from[n + size(s[n])]
    IN from[1]
-----------------------------------------------------------------------------

(* What is written of a literal, its final 0 included, fits what was       *)
(* allocated, accepted or not.                                             *)
FitsRoom(lit) == Scan(lit).end # 0 => Len(Fill(lit).out) + 1 <= Room(lit)

(* A closed literal is accepted exactly when its escapes are valid and its *)
(* surrogates paired, and then stands for those characters; one that is    *)
(* not closed is refused.  What is written fits either way.                *)
StringDecoded ==
    /\ \A lit \in {Literal, Append(Literal, Quote)} : FitsRoom(lit)
    /\ LET read == ParseString(Append(Literal, Quote)) IN
       /\ read.ok <=> WellPaired(Units)
       /\ read.ok => Decoded(read.out) = CodePoints(Units)
    /\ (\A n \in DOMAIN pieces : pieces[n].bytes # <<Quote>>) => ~ParseString(Literal).ok

(* A string that is printed parses back to itself.                         *)
StringRoundTrip ==
    LET read == ParseString(Append(Literal, Quote))
        s == CString(read.out)
    IN read.ok => ParseString(Tail(PrintString(s))) = [ok |-> TRUE, out |-> s]
=============================================================================
