------------------------------- MODULE DspJwt -------------------------------
(***************************************************************************)
(* Token validation (dsp_jwt.c) over bytes: the split at the dots, the     *)
(* base64url decoding into buffers of fixed size, the search for the       *)
(* algorithm and the expiry in the decoded text, the conversion of a raw   *)
(* signature to DER, and the order of the checks.  mbedTLS is external: it *)
(* accepts the key or not, the signature or not.  The sizes are constants, *)
(* to be small for TLC.                                                    *)
(***************************************************************************)
EXTENDS Integers, Sequences, SequencesExt

CONSTANTS
    Tokens,   \* the tokens that are validated: [text, ...] and what they mean
    Half,     \* bytes of each half of an ES256 signature (32)
    HdrCap,   \* sizeof(hdr_buf) (128)
    PayCap,   \* DSP_JWT_MAX_DECODE_B (512)
    SigCap,   \* sizeof(sig_buf) of RS256 (512)
    ExpWrap,  \* one more than the largest expiry (2^64)
    Now       \* time(NULL)

ASSUME JwtAssumption == /\ {Half, HdrCap, PayCap, SigCap, ExpWrap} \subseteq Nat \ {0}
                        /\ 2 * Half <= SigCap
                        /\ Now \in Nat /\ Now < ExpWrap

VARIABLES
    jwt,   \* the token being validated
    fn,    \* "ES256", "RS256" for the two functions, "none" between calls
    stage, \* the next check
    sig,   \* the decoded signature as it goes to mbedTLS
    pk,    \* the mbedtls_pk_context holds memory
    said   \* what the function returns

jwtVars == <<jwt, fn, stage, sig, pk, said>>

NoToken == [text |-> <<>>]
-----------------------------------------------------------------------------
(* Text *)

Dot == 46
Char(c) == CASE c \in 65..90 -> c - 65 [] c \in 97..122 -> c - 71 [] c \in 48..57 -> c + 4
             [] c = 45 -> 62 [] c = 95 -> 63 [] OTHER -> -1

Failed == [ok |-> FALSE, bytes |-> <<>>]

(* The bytes of a group of two, three or four characters, the unused low   *)
(* bits of the last one dropped.                                           *)
Group(v) == SubSeq(<<(v[1] * 4 + (v[2] \div 16)) % 256,
                     IF Len(v) > 2 THEN (v[2] * 16 + (v[3] \div 4)) % 256 ELSE 0,
                     IF Len(v) > 3 THEN (v[3] * 64 + v[4]) % 256 ELSE 0>>, 1, Len(v) - 1)

(* dsp_jwt_base64url_decode, a group of four at a time and then the rest.  *)
Base64(src, cap) ==
    LET groups == (Len(src) + 3) \div 4
        size(k) == IF 4 * k <= Len(src) THEN 4 ELSE Len(src) % 4
        value(k) == [n \in 1..size(k) |-> Char(src[4 * (k - 1) + n])]
    IN IF \E k \in 1..groups : \/ size(k) = 1
                               \/ \E n \in 1..size(k) : value(k)[n] < 0
                               \/ 3 * (k - 1) + size(k) - 1 > cap
       THEN Failed
       ELSE [ok |-> TRUE, bytes |-> FlattenSeq([k \in 1..groups |-> Group(value(k))])]

(* mem_find: the place of the first occurrence, 0 when there is none.      *)
Find(hay, needle) ==
    LET at == {n \in 1..Len(hay) - Len(needle) + 1 : SubSeq(hay, n, n + Len(needle) - 1) = needle}
    IN IF at = {} THEN 0 ELSE CHOOSE n \in at : \A m \in at : n <= m

ES256 == <<34, 69, 83, 50, 53, 54, 34>>
RS256 == <<34, 82, 83, 50, 53, 54, 34>>
Exp == <<34, 101, 120, 112, 34, 58>>
Space == 32

ParseAlg(json) == IF Find(json, ES256) # 0 THEN "ES256"
                  ELSE IF Find(json, RS256) # 0 THEN "RS256" ELSE "UNKNOWN"

(* dsp_jwt_parse_exp: the digits after the key and its spaces, in 64 bits. *)
ParseExp(json) ==
    LET after == SubSeq(json, Find(json, Exp) + Len(Exp), Len(json))
        start == SelectInSeq(after, LAMBDA c : c # Space)
        number == SubSeq(after, start, Len(after))
        stop == SelectInSeq(number, LAMBDA c : c \notin 48..57)
        digits == IF stop = 0 THEN number ELSE SubSeq(number, 1, stop - 1)
    IN IF Find(json, Exp) = 0 \/ start = 0 \/ digits = <<>> THEN [found |-> FALSE, exp |-> 0]
       ELSE [found |-> TRUE, exp |-> FoldLeft(LAMBDA v, c : (v * 10 + (c - 48)) % ExpWrap, 0, digits)]

(* dsp_jwt_split; of several dots the first two count.                     *)
Split(text) ==
    LET dots == SetToSortSeq({n \in DOMAIN text : text[n] = Dot}, <) IN
    IF Len(dots) < 2 THEN [ok |-> FALSE]
    ELSE [ok |-> TRUE, header |-> SubSeq(text, 1, dots[1] - 1),
          payload |-> SubSeq(text, dots[1] + 1, dots[2] - 1),
          sig |-> SubSeq(text, dots[2] + 1, Len(text))]

(* rs_to_der: a zero before a half whose high bit is set.                  *)
Integer_NoPad(half) == <<2, Half>> \o half
Integer(half) ==
    LET padded == IF half[1] >= 128 THEN <<0>> \o half ELSE half
    IN <<2, Len(padded)>> \o padded

Der(rs) == LET body == Integer(SubSeq(rs, 1, Half)) \o Integer(SubSeq(rs, Half + 1, 2 * Half))
           IN <<48, Len(body)>> \o body
-----------------------------------------------------------------------------
(* The checks *)

JwtInit == jwt = NoToken /\ fn = "none" /\ stage = "idle" /\ sig = <<>> /\ pk = FALSE /\ said = "none"

Say(e) == stage' = "said" /\ said' = e
Parts == Split(jwt.text)

JwtCall == \E f \in {"ES256", "RS256"}, t \in Tokens :
    /\ fn' = f /\ jwt' = t /\ stage' = "split"
    /\ UNCHANGED <<sig, pk, said>>

CheckSplit ==
    /\ stage = "split"
    /\ IF Parts.ok THEN stage' = "header" /\ UNCHANGED said ELSE Say("INVALID_FORMAT")
    /\ UNCHANGED <<jwt, fn, sig, pk>>

CheckHeader ==
    /\ stage = "header"
    /\ LET d == Base64(Parts.header, HdrCap) IN
       IF ~d.ok THEN Say("DECODE")
       ELSE IF ParseAlg(d.bytes) # fn THEN Say("INVALID_ALG")
       ELSE stage' = "payload" /\ UNCHANGED said
    /\ UNCHANGED <<jwt, fn, sig, pk>>

CheckPayload_At ==
    /\ stage = "payload"
    /\ LET d == Base64(Parts.payload, PayCap)
           e == ParseExp(d.bytes) IN
       IF ~d.ok THEN Say("DECODE")
       ELSE IF ~e.found THEN Say("NO_EXP")
       ELSE IF Now > e.exp THEN Say("EXPIRED")
       ELSE stage' = "sig" /\ UNCHANGED said
    /\ UNCHANGED <<jwt, fn, sig, pk>>
CheckPayload ==
    /\ stage = "payload"
    /\ LET d == Base64(Parts.payload, PayCap)
           e == ParseExp(d.bytes) IN
       IF ~d.ok THEN Say("DECODE")
       ELSE IF ~e.found THEN Say("NO_EXP")
       ELSE IF Now >= e.exp THEN Say("EXPIRED")
       ELSE stage' = "sig" /\ UNCHANGED said
    /\ UNCHANGED <<jwt, fn, sig, pk>>

CheckSig ==
    /\ stage = "sig"
    /\ LET d == Base64(Parts.sig, IF fn = "ES256" THEN 2 * Half ELSE SigCap) IN
       IF ~d.ok \/ d.bytes = <<>> \/ (fn = "ES256" /\ Len(d.bytes) # 2 * Half)
       THEN Say("INVALID_FORMAT") /\ UNCHANGED sig
       ELSE /\ sig' = IF fn = "ES256" THEN Der(d.bytes) ELSE d.bytes
            /\ stage' = "key" /\ UNCHANGED said
    /\ UNCHANGED <<jwt, fn, pk>>

(* mbedtls_pk_parse_public_key; a key it refuses may leave memory behind,  *)
(* which mbedtls_pk_free releases.                                         *)
ParseKey ==
    /\ stage = "key"
    /\ \/ pk' = TRUE /\ stage' = "verify" /\ UNCHANGED said
       \/ pk' = FALSE /\ Say("CRYPTO")
    /\ UNCHANGED <<jwt, fn, sig>>

Verify == /\ stage = "verify" /\ pk' = FALSE
          /\ Say("OK") \/ Say("CRYPTO")
          /\ UNCHANGED <<jwt, fn, sig>>

JwtReturn == /\ stage = "said" /\ stage' = "idle"
             /\ jwt' = NoToken /\ fn' = "none" /\ sig' = <<>> /\ said' = "none"
             /\ UNCHANGED pk

JwtNext == \/ stage = "idle" /\ JwtCall
           \/ CheckSplit \/ CheckHeader \/ CheckPayload \/ CheckSig \/ ParseKey \/ Verify \/ JwtReturn

JwtSpec == JwtInit /\ [][JwtNext]_jwtVars

-----------------------------------------------------------------------------
(* Reference definitions: a base64url text as bits; what a token means. *)

Weight == <<32, 16, 8, 4, 2, 1>>
Bit(src, n) == (Char(src[(n \div 6) + 1]) \div Weight[(n % 6) + 1]) % 2

Decoded64(src) ==
    [k \in 1..(Len(src) * 6) \div 8 |->
        LET b(m) == Bit(src, 8 * (k - 1) + m)
        IN 128 * b(0) + 64 * b(1) + 32 * b(2) + 16 * b(3) + 8 * b(4) + 4 * b(5) + 2 * b(6) + b(7)]

Decodes(src, cap) == /\ \A n \in DOMAIN src : Char(src[n]) # -1
                     /\ Len(src) % 4 # 1 /\ (Len(src) * 6) \div 8 <= cap

(* The first reason to refuse the token t in function f, "none" when only  *)
(* the key or the signature can.  t.alg and t.exp are what its header and  *)
(* payload say.                                                            *)
Refusal(f, t) ==
    CASE ~t.split -> "INVALID_FORMAT"
      [] t.split /\ t.alg = "broken" -> "DECODE"
      [] t.split /\ t.alg \notin {"broken", f} -> "INVALID_ALG"
      [] t.split /\ t.alg = f /\ t.exp = "broken" -> "DECODE"
      [] t.split /\ t.alg = f /\ t.exp = "absent" -> "NO_EXP"
      [] t.split /\ t.alg = f /\ t.exp = "past" -> "EXPIRED"
      [] OTHER ->
           IF Decodes(t.sig, SigCap) /\ (Len(t.sig) * 6) \div 8 > 0
              /\ (f = "ES256" => (Len(t.sig) * 6) \div 8 = 2 * Half)
           THEN "none" ELSE "INVALID_FORMAT"

(* The tokens are what their records say they are: where the text splits,  *)
(* and what its header and payload decode to.                              *)
Described == \A t \in Tokens :
    LET p == Split(t.text)
        h == Base64(p.header, HdrCap)
        d == Base64(p.payload, PayCap)
        e == ParseExp(d.bytes)
    IN /\ t.split \in BOOLEAN /\ t.split = p.ok
       /\ t.split =>
            /\ h.ok = (t.alg # "broken") /\ (h.ok => ParseAlg(h.bytes) = t.alg)
            /\ d.ok = (t.exp # "broken")
            /\ d.ok => /\ e.found = (t.exp # "absent")
                       /\ e.found => (Now >= e.exp) = (t.exp = "past")
            /\ p.sig = t.sig /\ t.sig \in Seq(Int)

-----------------------------------------------------------------------------
(* A token is accepted only when every part of it is in order, and one     *)
(* that is refused is told the first thing that is wrong with it           *)
(* (dsp_jwt.c:154-187); the key context is released whatever the outcome.  *)
VerdictRight == stage = "said" => ~pk /\
    IF Refusal(fn, jwt) = "none" THEN said \in {"OK", "CRYPTO"} ELSE said = Refusal(fn, jwt)

(* mbedTLS is given the bits of the signature text: all of them and no     *)
(* other; of an ES256 signature as two non-negative integers of the two    *)
(* halves.                                                                 *)
SignatureTrue == sig # <<>> =>
    LET raw == Decoded64(jwt.sig)
        r == sig[4]
        first == SubSeq(sig, 5, 4 + r)
        second == SubSeq(sig, 7 + r, Len(sig))
        value(b) == IF Len(b) > Half THEN Tail(b) ELSE b
    IN IF fn = "RS256" THEN sig = raw
       ELSE /\ sig[1] = 48 /\ sig[2] = Len(sig) - 2 /\ Len(sig) <= 2 * Half + 8
            /\ sig[3] = 2 /\ sig[5 + r] = 2 /\ sig[6 + r] = Len(second)
            /\ first[1] < 128 /\ second[1] < 128
            /\ value(first) \o value(second) = raw
=============================================================================
