---------------------------- MODULE MCDspLibrary ----------------------------
(* The JSON handlers, the token functions and the key store, one call at a *)
(* time.                                                                   *)
EXTENDS MCDspMessages, DspJwt, DspPsk

Six(v) == IF v < 26 THEN 65 + v ELSE IF v < 52 THEN 71 + v ELSE IF v < 62 THEN v - 4
          ELSE IF v = 62 THEN 45 ELSE 95

(* base64url of a text.                                                    *)
Encoded(b) ==
    LET bit(n) == IF n >= 8 * Len(b) THEN 0 ELSE (b[(n \div 8) + 1] \div 2 ^ (7 - (n % 8))) % 2
    IN [k \in 1..((8 * Len(b) + 5) \div 6) |->
          Six(FoldLeft(LAMBDA v, m : 2 * v + bit(6 * (k - 1) + m - 1), 0, [m \in 1..6 |-> m]))]

(* Headers of "alg" and one more character; the longest fills its buffer.  *)
Header(alg, text) == [alg |-> alg, text |-> text]
MCHeaders == {
    Header("ES256", Encoded(ES256)), Header("RS256", Encoded(<<123>> \o RS256 \o <<125>>)),
    Header("ES256", Encoded(RS256 \o ES256)), Header("UNKNOWN", Encoded(Tail(ES256))),
    Header("UNKNOWN", <<>>), Header("broken", Encoded(ES256 \o ES256 \o <<34>>)),
    Header("broken", Append(Encoded(ES256), 61)), Header("broken", <<65>>)}

(* Payloads; the number counts modulo ExpWrap.                             *)
Payload(exp, text) == [exp |-> exp, text |-> text]
After(rest) == Encoded(Exp \o rest)
MCPayloads == {
    Payload("future", After(<<49, 48, 49>>)),            \* 101
    Payload("future", After(<<32, 32, 50, 53, 54, 125>>)), \* two spaces, 256}
    Payload("past", After(<<49, 48, 48>>)),              \* 100
    Payload("past", After(<<49, 49, 50, 52>>)),          \* 1124 = 1024 + 100
    Payload("future", After(<<49, 49, 50, 53>>)),        \* 1125
    Payload("absent", After(<<>>)), Payload("absent", After(<<32>>)), Payload("absent", After(<<45, 49>>)),
    Payload("absent", Encoded(<<123>>)), Payload("absent", <<>>),
    Payload("broken", After(<<49, 48, 49, 32, 32, 32, 32, 32, 32, 32, 32>>)), Payload("broken", <<65, 65, 33>>)}

MCSigs == UNION {[1..n -> {65, 103, 95}] : n \in 0..7} \cup {<<65, 65, 61>>, <<Dot>>, <<65, 65, Dot, 65, 65>>}

Joined3(h, p, s) == [text |-> h.text \o <<Dot>> \o p.text \o <<Dot>> \o s, split |-> TRUE,
                     alg |-> h.alg, exp |-> p.exp, sig |-> s]

Good(alg) == Header(alg, Encoded(IF alg = "ES256" THEN ES256 ELSE RS256))
Valid == Payload("future", After(<<49, 48, 49>>))

MCTokens ==
    {Joined3(h, p, <<65, 65, 65, 103, 95, 95>>) : h \in MCHeaders, p \in MCPayloads}
    \cup {Joined3(h, Valid, s) : h \in {Good("ES256"), Good("RS256")}, s \in MCSigs}
    \cup {[text |-> t, split |-> FALSE] : t \in {<<>>, <<65, 66>>, Good("ES256").text \o <<Dot>> \o Valid.text}}

ASSUME MCDescribed == Described

(* The key store is used while nothing else runs, and left empty.          *)
LibraryInit == Init /\ JwtInit /\ PskInit

LibrarySpec ==
    /\ LibraryInit
    /\ [][\/ stage = "idle" /\ identity = Empty /\ Next /\ UNCHANGED <<jwtVars, pskVars>>
          \/ at = "idle" /\ identity = Empty /\ JwtNext /\ UNCHANGED <<vars, pskVars>>
          \/ at = "idle" /\ stage = "idle" /\ PskNext /\ UNCHANGED <<vars, jwtVars>>
         ]_<<vars, jwtVars, pskVars>>
=============================================================================
