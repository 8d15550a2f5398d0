-------------------------- MODULE DspLibraryProofs --------------------------
(***************************************************************************)
(* Proofs about the libraries the handlers use: the key store (DspPsk),    *)
(* the print buffer of cJSON (CJsonText, under the handlers of             *)
(* DspMessages), the token checks (DspJwt), what the handlers allocate and *)
(* free, and what a parsed text prints as, for buffers of any size and any *)
(* sequence of calls.                                                      *)
(***************************************************************************)
EXTENDS DspMessages, DspJwt, DspPsk, CJsonProofs

-----------------------------------------------------------------------------
(* The key store.                                                          *)
Buffer == [buf: [1..MaxLen -> Nat], len: 0..MaxLen]

PskInv == identity \in Buffer /\ key \in Buffer /\ HandedTrue

LEMMA EmptyBuffer == Empty \in Buffer
  BY PskAssumption DEF Empty, Buffer

LEMMA SomeText == \A s \in Some : s \in Seq(Byte)
  <1>. SUFFICES ASSUME NEW s \in Some PROVE s \in Seq(Byte)
    OBVIOUS
  <1>1. PICK m \in 0 .. MaxLen + 1 : s \in [1 .. m -> Byte]
    BY DEF Some, BoundedSeq, SeqOf
  <1>2. m \in Nat
    BY <1>1, PskAssumption
  <1>. QED  BY <1>1, <1>2, SeqDef

(* What is stored is read back whole, whatever the buffer held before.     *)
LEMMA StoredFront ==
    ASSUME NEW s \in Buffer, NEW new \in Seq(Byte), Len(new) <= MaxLen
    PROVE  /\ Stored(s, new) \in Buffer
           /\ SubSeq(Stored(s, new).buf, 1, Stored(s, new).len) = new
  <1>. DEFINE bytes == [n \in 1..MaxLen |-> IF n <= Len(new) THEN new[n] ELSE s.buf[n]]
  <1>0. new \in [1 .. Len(new) -> Byte] /\ Len(new) \in Nat
    BY LenProperties
  <1>1. Stored(s, new) = [buf |-> bytes, len |-> Len(new)]
    BY DEF Stored
  <1>2. Len(new) \in 0..MaxLen /\ MaxLen \in Nat /\ Byte \subseteq Nat
    BY PskAssumption, LenProperties
  <1>3. bytes \in [1..MaxLen -> Nat] /\ bytes \in Seq(Nat) /\ Len(bytes) = MaxLen
    <2>1. \A n \in 1..MaxLen : (IF n <= Len(new) THEN new[n] ELSE s.buf[n]) \in Nat
      <3>. SUFFICES ASSUME NEW n \in 1..MaxLen
                    PROVE  (IF n <= Len(new) THEN new[n] ELSE s.buf[n]) \in Nat
        OBVIOUS
      <3>1. s.buf[n] \in Nat
        BY DEF Buffer
      <3>2. n <= Len(new) => new[n] \in Nat
        <4>1. n <= Len(new) => n \in 1..Len(new)
          BY <1>2
        <4>2. n \in 1..Len(new) => new[n] \in Byte
          BY <1>0
        <4>. QED  BY <4>1, <4>2, <1>2
      <3>. QED  BY <3>1, <3>2
    <2>2. bytes \in [1..MaxLen -> Nat]
      BY <2>1
    <2>. HIDE DEF bytes
    <2>. QED  BY <1>2, <2>2, SeqDef, LenProperties
  <1>4. SubSeq(bytes, 1, Len(new)) = new
    <2>1. /\ SubSeq(bytes, 1, Len(new)) \in Seq(Nat)
          /\ Len(SubSeq(bytes, 1, Len(new))) = Len(new)
          /\ \A n \in 1..Len(new) : SubSeq(bytes, 1, Len(new))[n] = bytes[n]
      <3>. HIDE DEF bytes
      <3>. QED  BY <1>2, <1>3, SubSeqProperties
    <2>2. \A n \in 1..Len(new) : bytes[n] = new[n]
      BY <1>2
    <2>3. new \in Seq(Nat)
      <3>1. \A n \in 1..Len(new) : new[n] \in Nat
        BY <1>0, <1>2
      <3>2. new \in [1..Len(new) -> Nat]
        BY <1>0, <3>1
      <3>. QED  BY <1>0, <3>2, SeqDef
    <2>. HIDE DEF bytes
    <2>. QED  BY <2>1, <2>2, <2>3, SeqEqual
  <1>. HIDE DEF bytes
  <1>. QED  BY <1>1, <1>2, <1>3, <1>4 DEF Buffer

(* TLS is given exactly the credentials last accepted, and none when there *)
(* are none; an empty store keeps no byte of a key (dsp_psk_set,           *)
(* dsp_psk_apply, dsp_psk_deinit).                                         *)
THEOREM AlwaysHandedTrue == PskSpec => []HandedTrue
  <1>1. PskInit => PskInv
    BY EmptyBuffer DEF PskInit, PskInv, HandedTrue, Handed
  <1>2. PskInv /\ [PskNext]_pskVars => PskInv'
    <2>. SUFFICES ASSUME PskInv, [PskNext]_pskVars PROVE PskInv'
      OBVIOUS
    <2>1. CASE Wipe
      BY <2>1, EmptyBuffer DEF Wipe, PskInv, HandedTrue, Handed
    <2>2. CASE UNCHANGED pskVars
      BY <2>2 DEF pskVars, PskInv, HandedTrue, Handed
    <2>3. ASSUME NEW i \in Some, NEW k \in Some, Len(i) <= MaxLen, Len(k) <= MaxLen,
                 identity' = Stored(identity, i), key' = Stored(key, k),
                 configured' = TRUE, given' = <<i, k>>
          PROVE  PskInv'
      <3>1. /\ identity' \in Buffer /\ SubSeq(identity'.buf, 1, identity'.len) = i
            /\ key' \in Buffer /\ SubSeq(key'.buf, 1, key'.len) = k
        BY <2>3, SomeText, StoredFront DEF PskInv
      <3>. QED  BY <2>3, <3>1 DEF PskInv, HandedTrue, Handed
    <2>4. ASSUME NEW i \in Some, NEW k \in Some, Set(i, k) PROVE PskInv'
      <3>1. CASE Len(i) \in 1..MaxLen /\ Len(k) \in MinKey..MaxLen
        <4>1. Len(i) <= MaxLen /\ Len(k) <= MaxLen
          BY <3>1, PskAssumption
        <4>. QED  BY <2>3, <2>4, <3>1, <4>1 DEF Set
      <3>. QED  BY <2>2, <2>4, <3>1 DEF Set
    <2>. QED  BY <2>1, <2>2, <2>4 DEF PskNext
  <1>. QED  BY <1>1, <1>2, PTL DEF PskSpec, PskInv
-----------------------------------------------------------------------------
(* The print buffer.  What ensure makes room for is never less than what   *)
(* is then written, its terminating 0 included.                            *)
BufInv == buf \in [len : Nat, off : Nat]

LEMMA Sizes == ASSUME NEW t PROVE Advance(t) \in Nat /\ Needed(t) \in Nat /\ Written(t) \in Nat
                                  /\ Written(t) <= Needed(t) + 1
<1>1. Advance(t) \in Nat
  BY TextAssumption DEF Advance, Strings
<1>2. Needed(t) \in {1, Advance(t) + 1} /\ Written(t) \in {1, Advance(t) + 1}
  BY Zenon DEF Needed, Written
<1>3. t \in {"[", ":"} => Written(t) = 1
  BY Zenon DEF Written
<1>4. t \notin {"[", ":"} => Needed(t) = Advance(t) + 1
  BY Zenon DEF Needed
<1> QED
  BY <1>1, <1>2, <1>3, <1>4

(* What ensure leaves in the buffer.                                       *)
LEMMA Room == ASSUME BufInv, NEW n \in Nat PROVE Ensured(buf, n) \in Nat /\ buf.off + n + 1 <= Ensured(buf, n)
  BY DEF BufInv, Ensured

LEMMA PieceInv == ASSUME BufInv, PrintPiece PROVE BufInv' /\ (buf' # NoBuf => buf.off + Written(Text(heap, root)[piece]) <= buf'.len)
<1>1. PICK t : t = Text(heap, root)[piece]
  OBVIOUS
<1> HIDE DEF Text
<1>2. \/ buf' = [len |-> Ensured(buf, Needed(t)), off |-> buf.off + Advance(t)]
      \/ buf' = NoBuf
  BY <1>1 DEF PrintPiece
<1>3. CASE buf' = [len |-> Ensured(buf, Needed(t)), off |-> buf.off + Advance(t)]
  <2>1. buf.off \in Nat
    BY DEF BufInv
  <2>2. buf'.len = Ensured(buf, Needed(t)) /\ BufInv'
    BY <1>3, <2>1, Sizes, Room DEF BufInv
  <2>3. buf.off + Written(t) <= buf'.len
    BY <2>1, <2>2, Sizes, Room
  <2> QED
    BY <1>1, <2>2, <2>3
<1>4. CASE buf' = NoBuf
  BY <1>4 DEF NoBuf, BufInv
<1> QED
  BY <1>2, <1>3, <1>4

LEMMA BufStep == ASSUME BufInv, [Next]_vars PROVE BufInv'
<1>1. CASE buf' = buf
  BY <1>1 DEF BufInv
<1>2. CASE PrintingAnswer
  <2>1. CASE PrintStart
    BY <2>1, TextAssumption DEF PrintStart, BufInv
  <2>2. CASE PrintPiece
    BY <2>2, PieceInv
  <2>3. CASE PrintDone
    BY <2>3 DEF PrintDone, BufInv, NoBuf
  <2> QED
    BY <1>2, <2>1, <2>2, <2>3 DEF PrintingAnswer, Printing
<1>3. CASE Parsing
  BY <1>1, <1>3 DEF Parsing, Parse, ParseStart, ParseLeaf, ParseOpen, ParseNothing, ParseClose, ParseElement, ParseName, ParseNoName, ParseColon, ParseUnexpected, ParseDone, ParseFail
<1>4. CASE Validate \/ Extract \/ BuildStep \/ BuildFails \/ PrintAnswer \/ Finalise \/ Answer \/ Return
  BY <1>1, <1>4 DEF Validate, Extract, BuildStep, BuildFails, PrintAnswer, Finalise, Answer, Return, textVars
<1>5. CASE \E c \in Posting, b \in Bodies \cup {NoBody} : Request(c, b)
  BY <1>1, <1>5 DEF Request
<1>6. CASE \E c \in Reading, p \in Pids : Lookup(c, p)
  BY <1>1, <1>6 DEF Lookup, textVars
<1> QED
  BY <1>1, <1>2, <1>3, <1>4, <1>5, <1>6 DEF Next, Work, vars, textVars

(* What printing writes, a terminating 0 included, stays within the buffer *)
(* (ensure, print_value), for strings of any length, a buffer of any first *)
(* size and whichever allocation fails.                                    *)
THEOREM BufferAlwaysFits == Spec => BufferFits
<1>1. Init => BufInv
  BY DEF Init, BufInv, NoBuf
<1>2. BufInv /\ [Next]_vars => BufInv'
  BY BufStep
<1>3. BufInv => [PrintPiece /\ buf' # NoBuf => buf.off + Written(Text(heap, root)[piece]) <= buf'.len]_vars
  BY PieceInv
<1> QED
  BY <1>1, <1>2, <1>3, PTL DEF Spec, BufferFits
-----------------------------------------------------------------------------
(* The token checks.  First the decoder: it accepts a text exactly when    *)
(* its characters are those of the alphabet, its length is not one more    *)
(* than a multiple of four, and its bytes fit.                             *)

LEMMA Quarters == ASSUME NEW L \in Nat
  PROVE \E q \in Nat, r \in 0..3 :
          /\ L = 4 * q + r /\ L % 4 = r
          /\ (L + 3) \div 4 = IF r = 0 THEN q ELSE q + 1
          /\ (L * 6) \div 8 = 3 * q + (IF r \in {0, 1} THEN 0 ELSE r - 1)
<1> DEFINE q == L \div 4  r == L % 4
<1>1. q \in Nat /\ r \in 0..3 /\ L = 4 * q + r
  OBVIOUS
<1>0. L % 4 = r
  OBVIOUS
<1> HIDE DEF q, r
<1>2. (L + 3) \div 4 = IF r = 0 THEN q ELSE q + 1
  BY <1>1
<1>3. (L * 6) \div 8 = 3 * q + (IF r \in {0, 1} THEN 0 ELSE r - 1)
  BY <1>1
<1> QED
  BY <1>0, <1>1, <1>2, <1>3

LEMMA Total == ASSUME NEW L \in Nat PROVE (L * 6) \div 8 \in Nat
  OBVIOUS

LEMMA CharIs == ASSUME NEW c \in Int PROVE Char(c) < 0 <=> Char(c) = -1
  BY DEF Char

LEMMA Base64Ok == ASSUME NEW src \in Seq(Int), NEW cap \in Nat
                  PROVE  Base64(src, cap).ok \in BOOLEAN /\ (Base64(src, cap).ok <=> Decodes(src, cap))
<1> DEFINE groups == (Len(src) + 3) \div 4
           size(k) == IF 4 * k <= Len(src) THEN 4 ELSE Len(src) % 4
           value(k) == [n \in 1..size(k) |-> Char(src[4 * (k - 1) + n])]
           past(k) == 3 * (k - 1) + size(k) - 1 > cap
           total == (Len(src) * 6) \div 8
           Short == \E k \in 1..groups : size(k) = 1
           Wrong == \E k \in 1..groups : \E n \in 1..size(k) : value(k)[n] < 0
           Over == \E k \in 1..groups : past(k)
           Strange == \E n \in DOMAIN src : Char(src[n]) = -1
<1>1. Base64(src, cap) = IF Short \/ Wrong \/ Over THEN Failed
                         ELSE [ok |-> TRUE, bytes |-> FlattenSeq([k \in 1..groups |-> Group(value(k))])]
  <2> DEFINE Bad == \E k \in 1..groups : \/ size(k) = 1
                                         \/ \E n \in 1..size(k) : value(k)[n] < 0
                                         \/ past(k)
  <2>1. Base64(src, cap) = IF Bad THEN Failed
                           ELSE [ok |-> TRUE, bytes |-> FlattenSeq([k \in 1..groups |-> Group(value(k))])]
    BY Zenon DEF Base64
  <2>2. Bad <=> Short \/ Wrong \/ Over
    <3> HIDE DEF groups, size, value, past
    <3>1. ASSUME Bad PROVE Short \/ Wrong \/ Over
      <4>1. PICK k \in 1..groups : \/ size(k) = 1
                                   \/ \E n \in 1..size(k) : value(k)[n] < 0
                                   \/ past(k)
        BY <3>1
      <4>2. CASE size(k) = 1
        BY <4>2
      <4>3. CASE \E n \in 1..size(k) : value(k)[n] < 0
        BY <4>3
      <4>4. CASE past(k)
        BY <4>4
      <4> QED
        BY <4>1, <4>2, <4>3, <4>4
    <3>2. Short => Bad
      OBVIOUS
    <3>3. Wrong => Bad
      OBVIOUS
    <3>4. ASSUME NEW k \in 1..groups, past(k) PROVE Bad
      BY <3>4
    <3> QED
      <4> HIDE DEF Bad
      <4> QED
        BY <3>1, <3>2, <3>3, <3>4
  <2> HIDE DEF Bad, Short, Wrong, Over
  <2> QED
    BY <2>1, <2>2
<1>2. PICK q \in Nat, r \in 0..3 :
          /\ Len(src) = 4 * q + r /\ Len(src) % 4 = r
          /\ groups = IF r = 0 THEN q ELSE q + 1
          /\ total = 3 * q + (IF r \in {0, 1} THEN 0 ELSE r - 1)
  <2>1. Len(src) \in Nat
    OBVIOUS
  <2> QED
    BY <2>1, Quarters, Zenon
<1>3. groups \in Nat /\ total \in Nat /\ DOMAIN src = 1..(4 * q + r)
  <2>1. DOMAIN src = 1..Len(src)
    OBVIOUS
  <2> HIDE DEF groups, total
  <2> QED
    BY <1>2, <2>1
<1>4. ASSUME NEW k \in 1..groups PROVE size(k) = IF k <= q THEN 4 ELSE r
  <2> HIDE DEF groups, total
  <2> QED
    BY <1>2, <1>3
<1>5. \A k \in 1..groups : \A n \in 1..size(k) : value(k)[n] = Char(src[4 * (k - 1) + n])
  OBVIOUS
<1>6. Decodes(src, cap) <=> ~Strange /\ r # 1 /\ ~(total > cap)
  <2>1. Decodes(src, cap) <=> ~Strange /\ Len(src) % 4 # 1 /\ total <= cap
    BY Zenon DEF Decodes
  <2> HIDE DEF Strange, total
  <2> QED
    BY <1>2, <1>3, <2>1
<1> HIDE DEF groups, size, value, total
<1>7. Short <=> r = 1
  <2>1. ASSUME r = 1 PROVE q + 1 \in 1..groups /\ size(q + 1) = 1
    BY <1>2, <1>4, <2>1
  <2>2. ASSUME NEW k \in 1..groups, size(k) = 1 PROVE r = 1
    BY <1>4, <2>2
  <2> QED
    BY <2>1, <2>2
<1>8. Wrong <=> Strange
  <2>1. ASSUME NEW k \in 1..groups, NEW n \in 1..size(k), value(k)[n] < 0 PROVE Strange
    <3>1. Char(src[4 * (k - 1) + n]) < 0
      BY <1>5, <2>1
    <3>2. 4 * (k - 1) + n \in DOMAIN src
      BY <1>2, <1>3, <1>4
    <3> QED
      BY <3>1, <3>2, CharIs
  <2>2. ASSUME NEW m \in DOMAIN src, Char(src[m]) = -1 PROVE Wrong
    <3>1. m \in 1..(4 * q + r)
      BY <1>3
    <3>2. PICK k \in Nat, n \in 1..4 : m = 4 * (k - 1) + n /\ k >= 1
      <4>1. PICK a \in Nat, b \in 0..3 : m - 1 = 4 * a + b
        <5>1. m - 1 \in Nat
          BY <3>1
        <5> QED
          BY <5>1, Quarters
      <4>2. a + 1 \in Nat /\ b + 1 \in 1..4 /\ m = 4 * ((a + 1) - 1) + (b + 1) /\ a + 1 >= 1
        BY <3>1, <4>1
      <4> QED
        BY <4>2
    <3>3. k \in 1..groups
      BY <1>2, <1>3, <3>1, <3>2
    <3>4. n \in 1..size(k)
      BY <1>2, <1>4, <3>1, <3>2, <3>3
    <3>5. value(k)[n] = -1
      BY <1>5, <2>2, <3>2, <3>3, <3>4
    <3>6. value(k)[n] < 0
      BY <3>5
    <3> QED
      BY <3>3, <3>4, <3>6
  <2> QED
    BY <2>1, <2>2
<1>9. ASSUME r # 1 PROVE Over <=> total > cap
  <2>1. ASSUME NEW k \in 1..groups PROVE 3 * (k - 1) + size(k) - 1 <= total /\ size(k) \in 0..4
    BY <1>2, <1>3, <1>4, <1>9, SMTT(30)
  <2>2. ASSUME total > cap PROVE Over
    <3>1. groups \in 1..groups
      BY <1>2, <1>3, <2>2
    <3>2. 3 * (groups - 1) + size(groups) - 1 = total
      <4>1. size(groups) = IF groups <= q THEN 4 ELSE r
        BY <1>4, <3>1
      <4>2. CASE r = 0
        BY <1>2, <4>1, <4>2
      <4>3. CASE r \in {2, 3}
        BY <1>2, <4>1, <4>3, SMTT(30)
      <4> QED
        BY <1>9, <4>2, <4>3
    <3> QED
      BY <2>2, <3>1, <3>2
  <2>3. ASSUME Over PROVE total > cap
    <3>1. PICK k \in 1..groups : 3 * (k - 1) + size(k) - 1 > cap
      BY <2>3
    <3>2. 3 * (k - 1) + size(k) - 1 <= total /\ size(k) \in 0..4
      BY <2>1
    <3> QED
      BY <1>3, <3>1, <3>2
  <2> QED
    BY <2>2, <2>3
<1> HIDE DEF Short, Wrong, Over, Strange
<1>10. ASSUME Short \/ Wrong \/ Over PROVE Base64(src, cap).ok = FALSE
  <2>1. Base64(src, cap) = Failed
    BY <1>1, <1>10, Zenon
  <2> QED
    BY <2>1 DEF Failed
<1>11. ASSUME ~(Short \/ Wrong \/ Over) PROVE Base64(src, cap).ok = TRUE
  <2>1. PICK b : Base64(src, cap) = [ok |-> TRUE, bytes |-> b]
    BY <1>1, <1>11, Zenon
  <2> QED
    BY <2>1
<1> QED
  BY <1>6, <1>7, <1>8, <1>9, <1>10, <1>11

(* The bytes the decoder puts together are the bits of the text.           *)
LEMMA SixBits ==
    ASSUME NEW v \in 0 .. 63
    PROVE  \E a, b, c, d, e, f \in 0 .. 1 :
              /\ v = 32 * a + 16 * b + 8 * c + 4 * d + 2 * e + f
              /\ (v \div 32) % 2 = a /\ (v \div 16) % 2 = b /\ (v \div 8) % 2 = c
              /\ (v \div 4) % 2 = d /\ (v \div 2) % 2 = e /\ (v \div 1) % 2 = f
              /\ v \div 16 = 2 * a + b /\ v \div 4 = 8 * a + 4 * b + 2 * c + d
<1> DEFINE a == v \div 32
           r1 == v % 32
           b == r1 \div 16
           r2 == r1 % 16
           c == r2 \div 8
           r3 == r2 % 8
           d == r3 \div 4
           r4 == r3 % 4
           e == r4 \div 2
           f == r4 % 2
<1>1. a \in 0 .. 1 /\ r1 \in 0 .. 31 /\ v = 32 * a + r1
  OBVIOUS
<1> HIDE DEF a, r1
<1>2. b \in 0 .. 1 /\ r2 \in 0 .. 15 /\ r1 = 16 * b + r2
  BY <1>1
<1> HIDE DEF b, r2
<1>3. c \in 0 .. 1 /\ r3 \in 0 .. 7 /\ r2 = 8 * c + r3
  BY <1>2
<1> HIDE DEF c, r3
<1>4. d \in 0 .. 1 /\ r4 \in 0 .. 3 /\ r3 = 4 * d + r4
  BY <1>3
<1> HIDE DEF d, r4
<1>5. e \in 0 .. 1 /\ f \in 0 .. 1 /\ r4 = 2 * e + f
  BY <1>4
<1> HIDE DEF e, f
<1>6. v = 32 * a + 16 * b + 8 * c + 4 * d + 2 * e + f
  BY <1>1, <1>2, <1>3, <1>4, <1>5
<1>7. v \div 32 = a /\ v \div 16 = 2 * a + b /\ v \div 8 = 4 * a + 2 * b + c
      /\ v \div 4 = 8 * a + 4 * b + 2 * c + d /\ v \div 2 = 16 * a + 8 * b + 4 * c + 2 * d + e /\ v \div 1 = v
  BY <1>1, <1>2, <1>3, <1>4, <1>5, <1>6
<1>8. (v \div 32) % 2 = a /\ (v \div 16) % 2 = b /\ (v \div 8) % 2 = c
      /\ (v \div 4) % 2 = d /\ (v \div 2) % 2 = e /\ (v \div 1) % 2 = f
  BY <1>1, <1>2, <1>3, <1>4, <1>5, <1>6, <1>7
<1>9. v \div 16 = 2 * a + b /\ v \div 4 = 8 * a + 4 * b + 2 * c + d
  BY <1>7
<1>10. a \in 0 .. 1 /\ b \in 0 .. 1 /\ c \in 0 .. 1 /\ d \in 0 .. 1 /\ e \in 0 .. 1 /\ f \in 0 .. 1
  BY <1>1, <1>2, <1>3, <1>4, <1>5
<1> QED
  BY <1>6, <1>8, <1>9, <1>10, ZenonT(30)

Eight(a, b, c, d, e, f, g, h) == 128 * a + 64 * b + 32 * c + 16 * d + 8 * e + 4 * f + 2 * g + h

LEMMA FirstByte ==
    ASSUME NEW v \in 0 .. 63, NEW w \in 0 .. 63
    PROVE  Eight((v \div 32) % 2, (v \div 16) % 2, (v \div 8) % 2, (v \div 4) % 2, (v \div 2) % 2, (v \div 1) % 2, (w \div 32) % 2, (w \div 16) % 2)
           = (v * 4 + (w \div 16)) % 256
<1>1. PICK a, b, c, d, e, f \in 0 .. 1 :
              /\ v = 32 * a + 16 * b + 8 * c + 4 * d + 2 * e + f
              /\ (v \div 32) % 2 = a /\ (v \div 16) % 2 = b /\ (v \div 8) % 2 = c
              /\ (v \div 4) % 2 = d /\ (v \div 2) % 2 = e /\ (v \div 1) % 2 = f
  BY SixBits
<1>2. PICK x, y \in 0 .. 1 : (w \div 32) % 2 = x /\ (w \div 16) % 2 = y /\ w \div 16 = 2 * x + y
  BY SixBits
<1>3. v * 4 + (2 * x + y) \in 0 .. 255
  BY <1>1, <1>2
<1>4. (v * 4 + (w \div 16)) % 256 = v * 4 + (2 * x + y)
  BY <1>2, <1>3
<1> QED
  BY <1>1, <1>2, <1>4 DEF Eight

LEMMA SecondByte ==
    ASSUME NEW v \in 0 .. 63, NEW w \in 0 .. 63
    PROVE  Eight((v \div 8) % 2, (v \div 4) % 2, (v \div 2) % 2, (v \div 1) % 2, (w \div 32) % 2, (w \div 16) % 2, (w \div 8) % 2, (w \div 4) % 2)
           = (v * 16 + (w \div 4)) % 256
<1>1. PICK a, b, c, d, e, f \in 0 .. 1 :
              /\ v = 32 * a + 16 * b + 8 * c + 4 * d + 2 * e + f
              /\ (v \div 8) % 2 = c
              /\ (v \div 4) % 2 = d /\ (v \div 2) % 2 = e /\ (v \div 1) % 2 = f
  BY SixBits
<1>2. PICK x, y, z, t \in 0 .. 1 : /\ (w \div 32) % 2 = x /\ (w \div 16) % 2 = y
                                   /\ (w \div 8) % 2 = z /\ (w \div 4) % 2 = t
                                   /\ w \div 4 = 8 * x + 4 * y + 2 * z + t
  BY SixBits
<1>3. v * 16 + (w \div 4) = 256 * (2 * a + b) + (128 * c + 64 * d + 32 * e + 16 * f + 8 * x + 4 * y + 2 * z + t)
      /\ 128 * c + 64 * d + 32 * e + 16 * f + 8 * x + 4 * y + 2 * z + t \in 0 .. 255
  BY <1>1, <1>2
<1>4. (v * 16 + (w \div 4)) % 256 = 128 * c + 64 * d + 32 * e + 16 * f + 8 * x + 4 * y + 2 * z + t
  BY <1>3
<1> QED
  BY <1>1, <1>2, <1>4 DEF Eight

LEMMA ThirdByte ==
    ASSUME NEW v \in 0 .. 63, NEW w \in 0 .. 63
    PROVE  Eight((v \div 2) % 2, (v \div 1) % 2, (w \div 32) % 2, (w \div 16) % 2, (w \div 8) % 2, (w \div 4) % 2, (w \div 2) % 2, (w \div 1) % 2)
           = (v * 64 + w) % 256
<1>1. PICK a, b, c, d, e, f \in 0 .. 1 :
              /\ v = 32 * a + 16 * b + 8 * c + 4 * d + 2 * e + f
              /\ (v \div 2) % 2 = e /\ (v \div 1) % 2 = f
  BY SixBits
<1>2. PICK x, y, z, t, p, q \in 0 .. 1 :
              /\ w = 32 * x + 16 * y + 8 * z + 4 * t + 2 * p + q
              /\ (w \div 32) % 2 = x /\ (w \div 16) % 2 = y /\ (w \div 8) % 2 = z
              /\ (w \div 4) % 2 = t /\ (w \div 2) % 2 = p /\ (w \div 1) % 2 = q
  BY SixBits
<1>3. v * 64 + w = 256 * (8 * a + 4 * b + 2 * c + d) + (128 * e + 64 * f + w)
      /\ 128 * e + 64 * f + w \in 0 .. 255
  BY <1>1, <1>2
<1>4. (v * 64 + w) % 256 = 128 * e + 64 * f + w
  BY <1>3
<1> QED
  BY <1>1, <1>2, <1>4 DEF Eight

(* The bits of four characters that begin at the place q, and the byte     *)
(* that begins at the bit n.                                               *)
Sextet(src, q) ==
    /\ Bit(src, 6 * q) = (Char(src[q + 1]) \div 32) % 2
    /\ Bit(src, 6 * q + 1) = (Char(src[q + 1]) \div 16) % 2
    /\ Bit(src, 6 * q + 2) = (Char(src[q + 1]) \div 8) % 2
    /\ Bit(src, 6 * q + 3) = (Char(src[q + 1]) \div 4) % 2
    /\ Bit(src, 6 * q + 4) = (Char(src[q + 1]) \div 2) % 2
    /\ Bit(src, 6 * q + 5) = (Char(src[q + 1]) \div 1) % 2

ByteAt(src, n) == Eight(Bit(src, n), Bit(src, n + 1), Bit(src, n + 2), Bit(src, n + 3),
                        Bit(src, n + 4), Bit(src, n + 5), Bit(src, n + 6), Bit(src, n + 7))

LEMMA BitAt == ASSUME NEW src, NEW n, NEW q, NEW r, NEW w, n \div 6 = q, n % 6 = r, Weight[r + 1] = w
               PROVE  Bit(src, n) = (Char(src[q + 1]) \div w) % 2
  BY Zenon DEF Bit

LEMMA SextetBits == ASSUME NEW src, NEW q \in Nat PROVE Sextet(src, q)
<1>1. /\ Weight[0 + 1] = 32 /\ Weight[1 + 1] = 16 /\ Weight[2 + 1] = 8
      /\ Weight[3 + 1] = 4 /\ Weight[4 + 1] = 2 /\ Weight[5 + 1] = 1
  BY DEF Weight
<1>2. Bit(src, 6 * q) = (Char(src[q + 1]) \div 32) % 2
  <2> DEFINE n == 6 * q
  <2>1. n \div 6 = q /\ n % 6 = 0
    OBVIOUS
  <2> HIDE DEF n
  <2>2. Bit(src, n) = (Char(src[q + 1]) \div 32) % 2
    BY <1>1, <2>1, BitAt
  <2> QED
    BY <2>2 DEF n
<1>3. Bit(src, 6 * q + 1) = (Char(src[q + 1]) \div 16) % 2
  <2> DEFINE n == 6 * q + 1
  <2>1. n \div 6 = q /\ n % 6 = 1
    OBVIOUS
  <2> HIDE DEF n
  <2>2. Bit(src, n) = (Char(src[q + 1]) \div 16) % 2
    BY <1>1, <2>1, BitAt
  <2> QED
    BY <2>2 DEF n
<1>4. Bit(src, 6 * q + 2) = (Char(src[q + 1]) \div 8) % 2
  <2> DEFINE n == 6 * q + 2
  <2>1. n \div 6 = q /\ n % 6 = 2
    OBVIOUS
  <2> HIDE DEF n
  <2>2. Bit(src, n) = (Char(src[q + 1]) \div 8) % 2
    BY <1>1, <2>1, BitAt
  <2> QED
    BY <2>2 DEF n
<1>5. Bit(src, 6 * q + 3) = (Char(src[q + 1]) \div 4) % 2
  <2> DEFINE n == 6 * q + 3
  <2>1. n \div 6 = q /\ n % 6 = 3
    OBVIOUS
  <2> HIDE DEF n
  <2>2. Bit(src, n) = (Char(src[q + 1]) \div 4) % 2
    BY <1>1, <2>1, BitAt
  <2> QED
    BY <2>2 DEF n
<1>6. Bit(src, 6 * q + 4) = (Char(src[q + 1]) \div 2) % 2
  <2> DEFINE n == 6 * q + 4
  <2>1. n \div 6 = q /\ n % 6 = 4
    OBVIOUS
  <2> HIDE DEF n
  <2>2. Bit(src, n) = (Char(src[q + 1]) \div 2) % 2
    BY <1>1, <2>1, BitAt
  <2> QED
    BY <2>2 DEF n
<1>7. Bit(src, 6 * q + 5) = (Char(src[q + 1]) \div 1) % 2
  <2> DEFINE n == 6 * q + 5
  <2>1. n \div 6 = q /\ n % 6 = 5
    OBVIOUS
  <2> HIDE DEF n
  <2>2. Bit(src, n) = (Char(src[q + 1]) \div 1) % 2
    BY <1>1, <2>1, BitAt
  <2> QED
    BY <2>2 DEF n
<1> QED
  BY <1>2, <1>3, <1>4, <1>5, <1>6, <1>7 DEF Sextet

LEMMA FirstOfFour ==
    ASSUME NEW src, NEW q \in Nat, Char(src[q + 1]) \in 0 .. 63, Char(src[q + 2]) \in 0 .. 63
    PROVE  ByteAt(src, 6 * q) = (Char(src[q + 1]) * 4 + (Char(src[q + 2]) \div 16)) % 256
<1> DEFINE v == Char(src[q + 1])
           w == Char(src[q + 2])
<1>1. Sextet(src, q) /\ Sextet(src, q + 1) /\ q + 1 \in Nat /\ (q + 1) + 1 = q + 2
  BY SextetBits
<1>2. 6 * (q + 1) = 6 * q + 6 /\ 6 * (q + 1) + 1 = 6 * q + 7
  OBVIOUS
<1>3. /\ Bit(src, 6 * q) = (v \div 32) % 2 /\ Bit(src, 6 * q + 1) = (v \div 16) % 2
      /\ Bit(src, 6 * q + 2) = (v \div 8) % 2 /\ Bit(src, 6 * q + 3) = (v \div 4) % 2
      /\ Bit(src, 6 * q + 4) = (v \div 2) % 2 /\ Bit(src, 6 * q + 5) = (v \div 1) % 2
      /\ Bit(src, 6 * q + 6) = (w \div 32) % 2 /\ Bit(src, 6 * q + 7) = (w \div 16) % 2
  BY <1>1, <1>2, Zenon DEF Sextet
<1>4. v \in 0 .. 63 /\ w \in 0 .. 63
  OBVIOUS
<1> HIDE DEF v, w
<1>5. Eight((v \div 32) % 2, (v \div 16) % 2, (v \div 8) % 2, (v \div 4) % 2, (v \div 2) % 2, (v \div 1) % 2, (w \div 32) % 2, (w \div 16) % 2) = (v * 4 + (w \div 16)) % 256
  BY <1>4, FirstByte
<1>6. ByteAt(src, 6 * q) = Eight((v \div 32) % 2, (v \div 16) % 2, (v \div 8) % 2, (v \div 4) % 2, (v \div 2) % 2, (v \div 1) % 2, (w \div 32) % 2, (w \div 16) % 2)
  BY <1>3 DEF ByteAt
<1> QED
  BY <1>5, <1>6 DEF v, w

LEMMA SecondOfFour ==
    ASSUME NEW src, NEW q \in Nat, Char(src[q + 2]) \in 0 .. 63, Char(src[q + 3]) \in 0 .. 63
    PROVE  ByteAt(src, 6 * q + 8) = (Char(src[q + 2]) * 16 + (Char(src[q + 3]) \div 4)) % 256
<1> DEFINE v == Char(src[q + 2])
           w == Char(src[q + 3])
           n == 6 * q + 8
<1>1. Sextet(src, q + 1) /\ Sextet(src, q + 2) /\ (q + 1) + 1 = q + 2 /\ (q + 2) + 1 = q + 3
  BY SextetBits
<1>2. /\ 6 * (q + 1) + 2 = n /\ 6 * (q + 1) + 3 = n + 1 /\ 6 * (q + 1) + 4 = n + 2 /\ 6 * (q + 1) + 5 = n + 3
      /\ 6 * (q + 2) = n + 4 /\ 6 * (q + 2) + 1 = n + 5 /\ 6 * (q + 2) + 2 = n + 6 /\ 6 * (q + 2) + 3 = n + 7
  OBVIOUS
<1> HIDE DEF n
<1>3. /\ Bit(src, n) = (v \div 8) % 2 /\ Bit(src, n + 1) = (v \div 4) % 2
      /\ Bit(src, n + 2) = (v \div 2) % 2 /\ Bit(src, n + 3) = (v \div 1) % 2
      /\ Bit(src, n + 4) = (w \div 32) % 2 /\ Bit(src, n + 5) = (w \div 16) % 2
      /\ Bit(src, n + 6) = (w \div 8) % 2 /\ Bit(src, n + 7) = (w \div 4) % 2
  BY <1>1, <1>2, Zenon DEF Sextet
<1>4. v \in 0 .. 63 /\ w \in 0 .. 63
  OBVIOUS
<1> HIDE DEF v, w
<1>5. Eight((v \div 8) % 2, (v \div 4) % 2, (v \div 2) % 2, (v \div 1) % 2, (w \div 32) % 2, (w \div 16) % 2, (w \div 8) % 2, (w \div 4) % 2) = (v * 16 + (w \div 4)) % 256
  BY <1>4, SecondByte
<1>6. ByteAt(src, n) = Eight((v \div 8) % 2, (v \div 4) % 2, (v \div 2) % 2, (v \div 1) % 2, (w \div 32) % 2, (w \div 16) % 2, (w \div 8) % 2, (w \div 4) % 2)
  BY <1>3 DEF ByteAt
<1> QED
  BY <1>5, <1>6 DEF v, w, n

LEMMA ThirdOfFour ==
    ASSUME NEW src, NEW q \in Nat, Char(src[q + 3]) \in 0 .. 63, Char(src[q + 4]) \in 0 .. 63
    PROVE  ByteAt(src, 6 * q + 16) = (Char(src[q + 3]) * 64 + Char(src[q + 4])) % 256
<1> DEFINE v == Char(src[q + 3])
           w == Char(src[q + 4])
           n == 6 * q + 16
<1>1. Sextet(src, q + 2) /\ Sextet(src, q + 3) /\ (q + 2) + 1 = q + 3 /\ (q + 3) + 1 = q + 4
  BY SextetBits
<1>2. /\ 6 * (q + 2) + 4 = n /\ 6 * (q + 2) + 5 = n + 1
      /\ 6 * (q + 3) = n + 2 /\ 6 * (q + 3) + 1 = n + 3 /\ 6 * (q + 3) + 2 = n + 4 /\ 6 * (q + 3) + 3 = n + 5
      /\ 6 * (q + 3) + 4 = n + 6 /\ 6 * (q + 3) + 5 = n + 7
  OBVIOUS
<1> HIDE DEF n
<1>3. /\ Bit(src, n) = (v \div 2) % 2 /\ Bit(src, n + 1) = (v \div 1) % 2
      /\ Bit(src, n + 2) = (w \div 32) % 2 /\ Bit(src, n + 3) = (w \div 16) % 2
      /\ Bit(src, n + 4) = (w \div 8) % 2 /\ Bit(src, n + 5) = (w \div 4) % 2
      /\ Bit(src, n + 6) = (w \div 2) % 2 /\ Bit(src, n + 7) = (w \div 1) % 2
  BY <1>1, <1>2, Zenon DEF Sextet
<1>4. v \in 0 .. 63 /\ w \in 0 .. 63
  OBVIOUS
<1> HIDE DEF v, w
<1>5. Eight((v \div 2) % 2, (v \div 1) % 2, (w \div 32) % 2, (w \div 16) % 2, (w \div 8) % 2, (w \div 4) % 2, (w \div 2) % 2, (w \div 1) % 2) = (v * 64 + w) % 256
  BY <1>4, ThirdByte
<1>6. ByteAt(src, n) = Eight((v \div 2) % 2, (v \div 1) % 2, (w \div 32) % 2, (w \div 16) % 2, (w \div 8) % 2, (w \div 4) % 2, (w \div 2) % 2, (w \div 1) % 2)
  BY <1>3 DEF ByteAt
<1> QED
  BY <1>5, <1>6 DEF v, w, n

LEMMA BytesDecoded == ASSUME NEW src \in Seq(Int)
                      PROVE  Decoded64(src) = [k \in 1 .. (Len(src) * 6) \div 8 |-> ByteAt(src, 8 * (k - 1))]
<1> DEFINE n == (Len(src) * 6) \div 8
           byte(k) == 128 * Bit(src, 8 * (k - 1) + 0) + 64 * Bit(src, 8 * (k - 1) + 1)
                      + 32 * Bit(src, 8 * (k - 1) + 2) + 16 * Bit(src, 8 * (k - 1) + 3)
                      + 8 * Bit(src, 8 * (k - 1) + 4) + 4 * Bit(src, 8 * (k - 1) + 5)
                      + 2 * Bit(src, 8 * (k - 1) + 6) + Bit(src, 8 * (k - 1) + 7)
<1>1. Decoded64(src) = [k \in 1 .. n |-> byte(k)]
  BY Zenon DEF Decoded64
<1>2. \A k \in 1 .. n : 8 * (k - 1) + 0 = 8 * (k - 1)
  OBVIOUS
<1>3. \A k \in 1 .. n : byte(k) = ByteAt(src, 8 * (k - 1))
  BY <1>2, Zenon DEF ByteAt, Eight
<1> HIDE DEF byte, n
<1>4. [k \in 1 .. n |-> byte(k)] = [k \in 1 .. n |-> ByteAt(src, 8 * (k - 1))]
  BY <1>3, Zenon
<1> QED
  BY <1>1, <1>4 DEF n

(* Places counted in threes.                                               *)
LEMMA Thirds == ASSUME NEW i \in Nat, NEW d \in 0 .. 2
                PROVE  (3 * i + d) \div 3 = i /\ (3 * i + d) % 3 = d
OBVIOUS

LEMMA ThirdsOf == ASSUME NEW m \in Nat
                  PROVE  m \div 3 \in Nat /\ m % 3 \in 0 .. 2 /\ m = 3 * (m \div 3) + (m % 3)
OBVIOUS

LEMMA ThirdsPlace == ASSUME NEW i \in Nat, i >= 1, NEW l \in 1 .. 3, NEW m \in Nat, m >= 1, m <= 3 * (i - 1) + l,
                            NEW k \in Nat, NEW j \in Nat, k - 1 \in Nat, j - 1 \in 0 .. 2, m - 1 = 3 * (k - 1) + (j - 1)
                     PROVE  k \in 1 .. i /\ j \in 1 .. 3 /\ m = 3 * (k - 1) + j
OBVIOUS

LEMMA WithinThree == ASSUME NEW l \in 1 .. 3, NEW m \in 1 .. l PROVE m \in 1 .. 3
OBVIOUS

LEMMA PastThrees == ASSUME NEW a \in Nat, NEW l \in 1 .. 3, NEW m \in 1 .. a + l, ~(m <= a)
                    PROVE  m > a /\ m <= a + 3 /\ m \in Nat
OBVIOUS

(* Pieces of three put together, the last of them perhaps shorter.         *)
InThrees(ss, n) == (\A k \in 1 .. n - 1 : Len(ss[k]) = 3) /\ Len(ss[n]) \in 1 .. 3
ByThrees(ss, n) == [m \in 1 .. 3 * (n - 1) + Len(ss[n]) |-> ss[((m - 1) \div 3) + 1][((m - 1) % 3) + 1]]

LEMMA FlatThrees ==
    ASSUME NEW S, NEW n \in Nat \ {0}, NEW ss \in Seq(Seq(S)), Len(ss) = n, InThrees(ss, n)
    PROVE  FlattenSeq(ss) = ByThrees(ss, n)
<1> SUFFICES FlattenSeq(ss) = [m \in 1 .. 3 * (n - 1) + Len(ss[n]) |-> ss[((m - 1) \div 3) + 1][((m - 1) % 3) + 1]]
  BY DEF ByThrees
<1>b. (\A k \in 1 .. n - 1 : Len(ss[k]) = 3) /\ Len(ss[n]) \in 1 .. 3
  BY DEF InThrees
<1> DEFINE elem(m) == ss[((m - 1) \div 3) + 1][((m - 1) % 3) + 1]
           size(i) == 3 * (i - 1) + Len(ss[i])
           F(i) == [m \in 1 .. size(i) |-> elem(m)]
           f == CHOOSE f : f = [i \in 1 .. n |-> IF i = 1 THEN ss[i] ELSE f[i - 1] \o ss[i]]
<1>0. \A k \in 1 .. n : /\ ss[k] \in Seq(S) /\ Len(ss[k]) \in 1 .. 3
                        /\ \A j \in 1 .. Len(ss[k]) : ss[k][j] \in S
  <2>1. \A k \in 1 .. n : ss[k] \in Seq(S)
    BY ElementOfSeq
  <2>2. \A k \in 1 .. n : Len(ss[k]) \in 1 .. 3
    <3>1. \A k \in 1 .. n : k \in 1 .. n - 1 \/ k = n
      OBVIOUS
    <3> QED
      BY <3>1, <1>b
  <2> QED
    BY <2>1, <2>2, ElementOfSeq
<1>a. \A k \in 1 .. n : k # n => Len(ss[k]) = 3
  <2>1. \A k \in 1 .. n : k # n => k \in 1 .. n - 1
    OBVIOUS
  <2> QED
    BY <2>1, <1>b
<1>1. ASSUME NEW i \in 1 .. n PROVE F(i) \in Seq(S) /\ Len(F(i)) = size(i) /\ size(i) \in Nat
  <2>1. size(i) \in Nat
    BY <1>0
  <2>2. ASSUME NEW m \in 1 .. size(i) PROVE elem(m) \in S
    <3> DEFINE k == ((m - 1) \div 3) + 1
               j == ((m - 1) % 3) + 1
    <3>1. Len(ss[i]) \in 1 .. 3 /\ m \in Nat /\ m >= 1 /\ m <= 3 * (i - 1) + Len(ss[i])
      BY <1>0, <2>1
    <3>2. k \in 1 .. i /\ j \in 1 .. 3 /\ m = 3 * (k - 1) + j
      <4>1. m - 1 \in Nat
        BY <3>1
      <4>2. (m - 1) \div 3 \in Nat /\ (m - 1) % 3 \in 0 .. 2 /\ m - 1 = 3 * ((m - 1) \div 3) + ((m - 1) % 3)
        BY <4>1, ThirdsOf
      <4>3. k - 1 = (m - 1) \div 3 /\ j - 1 = (m - 1) % 3 /\ k \in Nat /\ j \in Nat
        BY <4>2
      <4> HIDE DEF k, j
      <4>4. k - 1 \in Nat /\ j - 1 \in 0 .. 2 /\ m - 1 = 3 * (k - 1) + (j - 1)
        BY <4>2, <4>3
      <4>5. i \in Nat /\ i >= 1
        OBVIOUS
      <4>6. m \in Nat /\ m >= 1 /\ m <= 3 * (i - 1) + Len(ss[i]) /\ Len(ss[i]) \in 1 .. 3
        BY <3>1
      <4> DEFINE l == Len(ss[i])
      <4>7. m <= 3 * (i - 1) + l /\ l \in 1 .. 3
        BY <4>6
      <4> HIDE DEF size, l
      <4>8. m \in Nat /\ m >= 1
        BY <4>6
      <4> QED
        BY <4>3, <4>4, <4>5, <4>7, <4>8
    <3> HIDE DEF k, j
    <3>3. k \in 1 .. n
      BY <3>2
    <3>4. j \in 1 .. Len(ss[k])
      <4>1. CASE k = i
        BY <3>1, <3>2, <4>1
      <4>2. CASE k # i
        <5>1. Len(ss[k]) = 3
          BY <1>a, <3>2, <3>3, <4>2
        <5> QED
          BY <3>2, <5>1
      <4> QED
        BY <4>1, <4>2
    <3>5. ss[k][j] \in S
      BY <1>0, <3>3, <3>4
    <3> QED
      BY <3>5 DEF k, j
  <2> HIDE DEF elem, size
  <2>3. F(i) \in [1 .. size(i) -> S]
    BY <2>2
  <2> DEFINE x == F(i)
             c == size(i)
  <2>4. x \in [1 .. c -> S] /\ c \in Nat
    BY <2>1, <2>3
  <2> HIDE DEF x, c
  <2>5. x \in Seq(S) /\ DOMAIN x = 1 .. c
    BY <2>4, SeqDef
  <2>6. Len(x) = c
    BY <2>4, <2>5, LenProperties
  <2> QED
    BY <2>4, <2>5, <2>6, Zenon DEF x, c
<1>2. F(1) = ss[1]
  <2>1. 1 \in 1 .. n
    OBVIOUS
  <2>2. ss[1] = [m \in 1 .. Len(ss[1]) |-> ss[1][m]]
    <3>1. ss[1] \in Seq(S)
      BY <1>0, <2>1
    <3> QED
      BY <3>1, FunctionOfSeq
  <2>3. \A m \in 1 .. Len(ss[1]) : elem(m) = ss[1][m]
    <3> SUFFICES ASSUME NEW m \in 1 .. Len(ss[1]) PROVE elem(m) = ss[1][m]
      OBVIOUS
    <3>1. m \in 1 .. 3
      <4>1. Len(ss[1]) \in 1 .. 3
        BY <1>0, <2>1
      <4> QED
        BY <4>1, WithinThree
    <3>2. ((m - 1) \div 3) + 1 = 1 /\ ((m - 1) % 3) + 1 = m
      <4>1. m - 1 \in 0 .. 2 /\ 3 * 0 + (m - 1) = m - 1
        BY <3>1
      <4>2. (m - 1) \div 3 = 0 /\ (m - 1) % 3 = m - 1
        BY <4>1, Thirds
      <4> QED
        BY <3>1, <4>2
    <3> QED
      BY <3>2
  <2>4. size(1) = Len(ss[1])
    BY <1>0, <2>1
  <2> HIDE DEF elem, size
  <2> QED
    BY <2>2, <2>3, <2>4
<1>3. ASSUME NEW i \in 2 .. n PROVE F(i - 1) \o ss[i] = F(i)
  <2>1. i \in 1 .. n /\ i - 1 \in 1 .. n /\ i - 1 # n /\ (i - 1) - 1 = i - 2
    OBVIOUS
  <2>2. Len(ss[i - 1]) = 3 /\ Len(ss[i]) \in 1 .. 3
    BY <1>0, <1>a, <2>1
  <2>3. size(i - 1) = 3 * (i - 1) /\ size(i) = 3 * (i - 1) + Len(ss[i])
    BY <2>1, <2>2
  <2> DEFINE a == F(i - 1)
             b == ss[i]
  <2>4. a \in Seq(S) /\ Len(a) = 3 * (i - 1) /\ b \in Seq(S) /\ Len(b) \in 1 .. 3 /\ Len(a) \in Nat
    BY <1>0, <1>1, <2>1, <2>3
  <2>5. a \o b \in Seq(S) /\ Len(a \o b) = Len(a) + Len(b)
        /\ \A m \in 1 .. Len(a) + Len(b) : (a \o b)[m] = IF m <= Len(a) THEN a[m] ELSE b[m - Len(a)]
    <3> HIDE DEF a, b
    <3> QED
      BY <2>4, ConcatProperties
  <2>6. a \o b = [m \in 1 .. Len(a) + Len(b) |-> (a \o b)[m]]
    <3> HIDE DEF a, b
    <3>1. a \o b = [m \in 1 .. Len(a \o b) |-> (a \o b)[m]]
      BY <2>5, FunctionOfSeq
    <3> QED
      BY <2>5, <3>1
  <2>7. ASSUME NEW m \in 1 .. size(i) PROVE (a \o b)[m] = elem(m)
    <3>1. m \in 1 .. Len(a) + Len(b) /\ Len(a) = 3 * (i - 1) /\ Len(b) \in 1 .. 3
      BY <2>3, <2>4
    <3>2. CASE m <= Len(a)
      <4>1. m \in 1 .. size(i - 1)
        <5>1. m \in Nat /\ m >= 1 /\ m <= size(i - 1) /\ size(i - 1) \in Nat
          <6> HIDE DEF a, b, size
          <6> QED
            BY <2>3, <3>1, <3>2
        <5> HIDE DEF size
        <5> QED
          BY <5>1
      <4>2. a[m] = elem(m)
        <5> HIDE DEF size, elem
        <5> QED
          BY <4>1
      <4>3. (a \o b)[m] = a[m]
        <5> HIDE DEF a, b
        <5> QED
          BY <2>5, <3>1, <3>2
      <4> QED
        BY <4>2, <4>3
    <3>3. CASE ~(m <= Len(a))
      <4>1. (a \o b)[m] = b[m - Len(a)]
        <5>1. (a \o b)[m] = IF m <= Len(a) THEN a[m] ELSE b[m - Len(a)]
          BY <2>5, <3>1
        <5> HIDE DEF a, b
        <5> QED
          BY <3>3, <5>1
      <4>2. ((m - 1) \div 3) + 1 = i /\ ((m - 1) % 3) + 1 = m - 3 * (i - 1)
        <5> HIDE DEF a, b
        <5>1. m > 3 * (i - 1) /\ m <= 3 * (i - 1) + 3 /\ m \in Nat /\ i \in Nat
          <6>1. Len(a) = 3 * (i - 1) /\ Len(a) \in Nat /\ Len(b) \in 1 .. 3 /\ m \in 1 .. Len(a) + Len(b)
            BY <2>4, <3>1
          <6>2. m > Len(a) /\ m <= Len(a) + 3 /\ m \in Nat
            BY <3>3, <6>1, PastThrees
          <6>3. i \in Nat
            OBVIOUS
          <6> QED
            BY <6>1, <6>2, <6>3
        <5>2. PICK d \in 1 .. 3 : m = 3 * (i - 1) + d
          <6>1. m - 3 * (i - 1) \in 1 .. 3 /\ m = 3 * (i - 1) + (m - 3 * (i - 1))
            BY <5>1
          <6> QED
            BY <6>1
        <5>3. i - 1 \in Nat /\ d - 1 \in 0 .. 2 /\ m - 1 = 3 * (i - 1) + (d - 1)
          BY <5>1, <5>2
        <5>4. (m - 1) \div 3 = i - 1 /\ (m - 1) % 3 = d - 1
          <6>1. (3 * (i - 1) + (d - 1)) \div 3 = i - 1 /\ (3 * (i - 1) + (d - 1)) % 3 = d - 1
            BY <5>3, Thirds, ZenonT(30)
          <6> QED
            BY <5>3, <6>1
        <5> QED
          BY <5>2, <5>4
      <4> QED
        BY <3>1, <4>1, <4>2
    <3> QED
      BY <3>2, <3>3
  <2>8. Len(a) + Len(b) = size(i)
    BY <2>3, <2>4
  <2>9. F(i) = [m \in 1 .. size(i) |-> (a \o b)[m]]
    <3> HIDE DEF a, b, elem, size
    <3> QED
      BY <2>7
  <2> HIDE DEF F, size
  <2> QED
    BY <2>6, <2>8, <2>9
<1>4. f = [i \in 1 .. n |-> IF i = 1 THEN ss[i] ELSE f[i - 1] \o ss[i]]
  <2> HIDE DEF F
  <2> DEFINE g == [i \in 1 .. n |-> F(i)]
  <2>1. \A i \in 1 .. n : F(i) = IF i = 1 THEN ss[i] ELSE g[i - 1] \o ss[i]
    <3> SUFFICES ASSUME NEW i \in 1 .. n PROVE F(i) = IF i = 1 THEN ss[i] ELSE g[i - 1] \o ss[i]
      OBVIOUS
    <3>1. CASE i = 1
      BY <1>2, <3>1
    <3>2. CASE i # 1
      <4>1. i \in 2 .. n /\ i - 1 \in 1 .. n
        BY <3>2
      <4>2. g[i - 1] = F(i - 1)
        BY <4>1
      <4> QED
        BY <1>3, <3>2, <4>1, <4>2
    <3> QED
      BY <3>1, <3>2
  <2>2. g = [i \in 1 .. n |-> IF i = 1 THEN ss[i] ELSE g[i - 1] \o ss[i]]
    BY <2>1
  <2> HIDE DEF g
  <2>3. \E x : x = [i \in 1 .. n |-> IF i = 1 THEN ss[i] ELSE x[i - 1] \o ss[i]]
    BY <2>2
  <2> QED
    BY <2>3
<1> HIDE DEF f, F
<1>5. \A i \in 1 .. n : f[i] = F(i)
  <2> DEFINE T == {i \in 1 .. n : f[i] # F(i)}
  <2> SUFFICES ASSUME T # {} PROVE FALSE
    OBVIOUS
  <2>1. PICK i \in T : \A j \in T : i <= j
    <3>1. T \subseteq Nat
      OBVIOUS
    <3> HIDE DEF T
    <3> QED
      BY <3>1, LeastNat
  <2>2. i \in 1 .. n /\ f[i] # F(i)
    BY <2>1
  <2>3. f[i] = IF i = 1 THEN ss[i] ELSE f[i - 1] \o ss[i]
    BY <1>4, <2>2
  <2>4. CASE i = 1
    BY <1>2, <2>2, <2>3, <2>4
  <2>5. CASE i # 1
    <3>1. i \in 2 .. n /\ i - 1 \in 1 .. n /\ ~(i <= i - 1)
      BY <2>2, <2>5
    <3>2. i - 1 \notin T
      <4> HIDE DEF T
      <4> QED
        BY <2>1, <3>1
    <3>3. f[i - 1] = F(i - 1)
      BY <3>1, <3>2
    <3>4. f[i] = F(i - 1) \o ss[i]
      BY <2>3, <2>5, <3>3
    <3> QED
      BY <1>3, <2>2, <3>1, <3>4
  <2> QED
    BY <2>4, <2>5
<1>6. FlattenSeq(ss) = f[n]
  BY Zenon DEF FlattenSeq, f
<1>7. n \in 1 .. n
  OBVIOUS
<1> QED
  BY <1>5, <1>6, <1>7 DEF F

LEMMA CharRange == ASSUME NEW c \in Int, Char(c) # -1 PROVE Char(c) \in 0 .. 63
  BY DEF Char

LEMMA SmallBytes == ASSUME NEW a \in 0 .. 63, NEW b \in 0 .. 63
                    PROVE  /\ (a * 4 + (b \div 16)) % 256 \in 0 .. 255
                           /\ (a * 16 + (b \div 4)) % 256 \in 0 .. 255
                           /\ (a * 64 + b) % 256 \in 0 .. 255
<1>1. b \div 16 \in 0 .. 3 /\ b \div 4 \in 0 .. 15
  OBVIOUS
<1>2. a * 4 + (b \div 16) \in Nat /\ a * 16 + (b \div 4) \in Nat /\ a * 64 + b \in Nat
  BY <1>1
<1>3. \A n \in Nat : n % 256 \in 0 .. 255
  OBVIOUS
<1> QED
  BY <1>2, <1>3

(* What a group of characters becomes.                                     *)
LEMMA GroupBytes ==
    ASSUME NEW s \in 2 .. 4, NEW v \in [1 .. s -> 0 .. 63]
    PROVE  /\ Group(v) \in Seq(0 .. 255) /\ Len(Group(v)) = s - 1
           /\ Group(v)[1] = (v[1] * 4 + (v[2] \div 16)) % 256
           /\ s > 2 => Group(v)[2] = (v[2] * 16 + (v[3] \div 4)) % 256
           /\ s > 3 => Group(v)[3] = (v[3] * 64 + v[4]) % 256
<1> DEFINE x == (v[1] * 4 + (v[2] \div 16)) % 256
           y == IF Len(v) > 2 THEN (v[2] * 16 + (v[3] \div 4)) % 256 ELSE 0
           z == IF Len(v) > 3 THEN (v[3] * 64 + v[4]) % 256 ELSE 0
           t == <<x, y, z>>
<1>1. Len(v) = s /\ s \in Nat
  <2>1. v \in Seq(0 .. 63) /\ s \in Nat
    BY SeqDef
  <2> QED
    BY <2>1, LenProperties
<1>2. /\ v[1] \in 0 .. 63 /\ v[2] \in 0 .. 63
      /\ s > 2 => v[3] \in 0 .. 63
      /\ s > 3 => v[4] \in 0 .. 63
  OBVIOUS
<1>3. x \in 0 .. 255
  BY <1>2, SmallBytes, ZenonT(30)
<1>4. y \in 0 .. 255
  <2>1. CASE s > 2
    BY <1>1, <1>2, <2>1, SmallBytes, ZenonT(30)
  <2>2. CASE ~(s > 2)
    BY <1>1, <2>2
  <2> QED
    BY <2>1, <2>2
<1>5. z \in 0 .. 255
  <2>1. CASE s > 3
    <3>1. v[3] \in 0 .. 63 /\ v[4] \in 0 .. 63 /\ Len(v) > 3
      BY <1>1, <1>2, <2>1
    <3> QED
      BY <3>1, SmallBytes, ZenonT(30)
  <2>2. CASE ~(s > 3)
    BY <1>1, <2>2
  <2> QED
    BY <2>1, <2>2
<1>6. Group(v) = SubSeq(t, 1, s - 1)
  BY <1>1 DEF Group
<1>7. s > 2 => y = (v[2] * 16 + (v[3] \div 4)) % 256
  BY <1>1
<1>8. s > 3 => z = (v[3] * 64 + v[4]) % 256
  BY <1>1
<1> HIDE DEF y, z
<1>9. Group(v)[1] = x
  <2> HIDE DEF x
  <2>1. t \in Seq(0 .. 255) /\ Len(t) = 3 /\ t[1] = x
    BY <1>3, <1>4, <1>5
  <2> HIDE DEF t
  <2> QED
    BY <1>6, <2>1
<1> HIDE DEF x
<1>10. t \in Seq(0 .. 255) /\ Len(t) = 3 /\ t[1] = x /\ t[2] = y /\ t[3] = z
  BY <1>3, <1>4, <1>5
<1> HIDE DEF t
<1>11. SubSeq(t, 1, s - 1) \in Seq(0 .. 255) /\ Len(SubSeq(t, 1, s - 1)) = s - 1
       /\ \A i \in 1 .. s - 1 : SubSeq(t, 1, s - 1)[i] = t[i]
  <2>1. s - 1 \in Nat /\ s - 1 <= Len(t)
    BY <1>10
  <2> QED
    BY <1>10, <2>1, PrefixOf, Zenon
<1>12. s > 2 => Group(v)[2] = y
  BY <1>6, <1>10, <1>11
<1>13. s > 3 => Group(v)[3] = z
  BY <1>6, <1>10, <1>11
<1> QED
  BY <1>6, <1>7, <1>8, <1>9, <1>11, <1>12, <1>13 DEF x

LEMMA PlaceInGroups ==
    ASSUME NEW n \in Nat \ {0}, NEW l \in 1 .. 3, NEW m \in 1 .. 3 * (n - 1) + l
    PROVE  \E a \in 0 .. n - 1, d \in 0 .. 2 :
              /\ m - 1 = 3 * a + d /\ (m - 1) \div 3 = a /\ (m - 1) % 3 = d
              /\ a = n - 1 => d < l
              /\ 8 * (m - 1) = 6 * (4 * a) + 8 * d
<1> DEFINE a == (m - 1) \div 3
           d == (m - 1) % 3
<1>1. m - 1 \in Nat /\ m \in Nat /\ m >= 1 /\ m <= 3 * (n - 1) + l
  OBVIOUS
<1>2. a \in Nat /\ d \in 0 .. 2 /\ m - 1 = 3 * a + d
  BY <1>1, ThirdsOf
<1>3. a = (m - 1) \div 3 /\ d = (m - 1) % 3
  OBVIOUS
<1> HIDE DEF a, d
<1>4. a \in 0 .. n - 1 /\ (a = n - 1 => d < l) /\ 8 * (m - 1) = 6 * (4 * a) + 8 * d
  BY <1>1, <1>2
<1> QED
  BY <1>2, <1>3, <1>4

(* A text that decodes becomes its bits, eight to a byte.                  *)
LEMMA Base64Bytes ==
    ASSUME NEW src \in Seq(Int), NEW cap \in Nat, Base64(src, cap).ok
    PROVE  /\ Base64(src, cap).bytes = Decoded64(src)
           /\ Decoded64(src) \in Seq(0 .. 255) /\ Len(Decoded64(src)) = (Len(src) * 6) \div 8
<1> DEFINE groups == (Len(src) + 3) \div 4
           size(k) == IF 4 * k <= Len(src) THEN 4 ELSE Len(src) % 4
           value(k) == [n \in 1..size(k) |-> Char(src[4 * (k - 1) + n])]
           pieces == [k \in 1..groups |-> Group(value(k))]
           total == (Len(src) * 6) \div 8
<1>1. Base64(src, cap) = [ok |-> TRUE, bytes |-> FlattenSeq(pieces)]
  <2>1. \/ Base64(src, cap) = Failed
        \/ Base64(src, cap) = [ok |-> TRUE, bytes |-> FlattenSeq(pieces)]
    BY Zenon DEF Base64
  <2>2. Base64(src, cap) # Failed
    BY DEF Failed
  <2> QED
    BY <2>1, <2>2
<1>2. Decodes(src, cap)
  BY Base64Ok
<1>3. PICK q \in Nat, r \in 0..3 :
          /\ Len(src) = 4 * q + r /\ Len(src) % 4 = r
          /\ groups = IF r = 0 THEN q ELSE q + 1
          /\ total = 3 * q + (IF r \in {0, 1} THEN 0 ELSE r - 1)
  <2>1. Len(src) \in Nat
    OBVIOUS
  <2> QED
    BY <2>1, Quarters, Zenon
<1>4. groups \in Nat /\ total \in Nat /\ DOMAIN src = 1..(4 * q + r)
  <2>1. DOMAIN src = 1..Len(src)
    OBVIOUS
  <2> HIDE DEF groups, total
  <2> QED
    BY <1>3, <2>1
<1>5. ASSUME NEW k \in 1..groups PROVE size(k) = IF k <= q THEN 4 ELSE r
  <2> HIDE DEF groups, total
  <2> QED
    BY <1>3, <1>4
<1>6. r # 1
  BY <1>2, <1>3 DEF Decodes
<1>7. \A k \in 1..groups : size(k) \in 2 .. 4 /\ (k # groups => size(k) = 4)
  <2> HIDE DEF groups, total, size
  <2> QED
    BY <1>3, <1>5, <1>6
<1>8. ASSUME NEW k \in 1..groups, NEW n \in 1..size(k)
      PROVE  4 * (k - 1) + n \in DOMAIN src /\ Char(src[4 * (k - 1) + n]) \in 0 .. 63
  <2>1. 4 * (k - 1) + n \in 1 .. (4 * q + r)
    <3>1. k \in Nat /\ k >= 1 /\ k <= groups /\ n \in 1 .. (IF k <= q THEN 4 ELSE r)
      BY <1>5, <1>4
    <3> HIDE DEF groups, total, size
    <3> QED
      BY <1>3, <3>1
  <2> HIDE DEF groups, total, size
  <2>2. 4 * (k - 1) + n \in DOMAIN src
    BY <1>4, <2>1
  <2>3. src[4 * (k - 1) + n] \in Int
    BY <2>2
  <2>4. Char(src[4 * (k - 1) + n]) # -1
    BY <1>2, <2>2, Zenon DEF Decodes
  <2> QED
    BY <2>2, <2>3, <2>4, CharRange
<1>9. ASSUME NEW k \in 1..groups
      PROVE  /\ pieces[k] \in Seq(0 .. 255) /\ Len(pieces[k]) = size(k) - 1
             /\ pieces[k][1] = ByteAt(src, 6 * (4 * (k - 1)))
             /\ size(k) > 2 => pieces[k][2] = ByteAt(src, 6 * (4 * (k - 1)) + 8)
             /\ size(k) > 3 => pieces[k][3] = ByteAt(src, 6 * (4 * (k - 1)) + 16)
  <2> DEFINE v == value(k)
             s == size(k)
             p == 4 * (k - 1)
  <2>1. s \in 2 .. 4 /\ v \in [1 .. s -> 0 .. 63]
    BY <1>7, <1>8
  <2>2. pieces[k] = Group(v)
    OBVIOUS
  <2>3. \A n \in 1 .. s : v[n] = Char(src[p + n])
    OBVIOUS
  <2>4. p \in Nat /\ 1 \in 1 .. s /\ 2 \in 1 .. s
    <3>1. k \in Nat /\ k >= 1
      BY <1>4
    <3> HIDE DEF s
    <3> QED
      BY <2>1, <3>1
  <2>a. \A n \in 1 .. s : v[n] \in 0 .. 63
    BY <2>1
  <2> HIDE DEF pieces, v, s, p
  <2>5. /\ Group(v) \in Seq(0 .. 255) /\ Len(Group(v)) = s - 1
        /\ Group(v)[1] = (v[1] * 4 + (v[2] \div 16)) % 256
        /\ s > 2 => Group(v)[2] = (v[2] * 16 + (v[3] \div 4)) % 256
        /\ s > 3 => Group(v)[3] = (v[3] * 64 + v[4]) % 256
    BY <2>1, GroupBytes
  <2>6. Char(src[p + 1]) = v[1] /\ Char(src[p + 2]) = v[2] /\ v[1] \in 0 .. 63 /\ v[2] \in 0 .. 63
    BY <2>3, <2>4, <2>a
  <2>7. ByteAt(src, 6 * p) = (v[1] * 4 + (v[2] \div 16)) % 256
    <3>1. Char(src[p + 1]) \in 0 .. 63 /\ Char(src[p + 2]) \in 0 .. 63
      BY <2>6
    <3>2. ByteAt(src, 6 * p) = (Char(src[p + 1]) * 4 + (Char(src[p + 2]) \div 16)) % 256
      BY <2>4, <3>1, FirstOfFour, Zenon
    <3> QED
      BY <2>6, <3>2, Zenon
  <2>8. ASSUME s > 2 PROVE ByteAt(src, 6 * p + 8) = (v[2] * 16 + (v[3] \div 4)) % 256
    <3>1. 3 \in 1 .. s
      BY <2>1, <2>8
    <3>2. Char(src[p + 3]) = v[3] /\ v[3] \in 0 .. 63
      BY <2>3, <2>a, <3>1
    <3> QED
      <4>1. Char(src[p + 2]) \in 0 .. 63 /\ Char(src[p + 3]) \in 0 .. 63
        BY <2>6, <3>2
      <4>2. ByteAt(src, 6 * p + 8) = (Char(src[p + 2]) * 16 + (Char(src[p + 3]) \div 4)) % 256
        BY <2>4, <4>1, SecondOfFour, Zenon
      <4> QED
        BY <2>6, <3>2, <4>2, Zenon
  <2>9. ASSUME s > 3 PROVE ByteAt(src, 6 * p + 16) = (v[3] * 64 + v[4]) % 256
    <3>1. 3 \in 1 .. s /\ 4 \in 1 .. s
      BY <2>1, <2>9
    <3>2. Char(src[p + 3]) = v[3] /\ v[3] \in 0 .. 63 /\ Char(src[p + 4]) = v[4] /\ v[4] \in 0 .. 63
      BY <2>3, <2>a, <3>1
    <3> QED
      <4>1. Char(src[p + 3]) \in 0 .. 63 /\ Char(src[p + 4]) \in 0 .. 63
        BY <3>2
      <4>2. ByteAt(src, 6 * p + 16) = (Char(src[p + 3]) * 64 + Char(src[p + 4])) % 256
        BY <2>4, <4>1, ThirdOfFour, Zenon
      <4> QED
        BY <3>2, <4>2, Zenon
  <2>10. s > 2 => Group(v)[2] = ByteAt(src, 6 * p + 8)
    BY <2>5, <2>8
  <2>11. s > 3 => Group(v)[3] = ByteAt(src, 6 * p + 16)
    BY <2>5, <2>9
  <2> QED
    BY <2>2, <2>5, <2>7, <2>10, <2>11 DEF s, p
<1>10. Decoded64(src) = [m \in 1 .. total |-> ByteAt(src, 8 * (m - 1))]
  BY BytesDecoded
<1> HIDE DEF groups, total, size
<1>11. CASE groups = 0
  <2>1. total = 0
    BY <1>3, <1>11
  <2>2. pieces = <<>> /\ [m \in 1 .. total |-> ByteAt(src, 8 * (m - 1))] = <<>>
    BY <1>11, <2>1
  <2>3. FlattenSeq(<<>>) = <<>>
    BY DEF FlattenSeq
  <2>4. Base64(src, cap).bytes = <<>>
    <3> HIDE DEF pieces
    <3>1. FlattenSeq(pieces) = <<>>
      BY <2>2, <2>3, Zenon
    <3> QED
      BY <1>1, <3>1
  <2>5. Decoded64(src) = <<>>
    BY <1>10, <2>2
  <2> QED
    BY <2>1, <2>4, <2>5 DEF total
<1>12. CASE groups # 0
  <2>1. groups \in Nat \ {0}
    BY <1>4, <1>12
  <2>2. pieces \in Seq(Seq(0 .. 255)) /\ Len(pieces) = groups
    <3>1. \A k \in 1 .. groups : Group(value(k)) \in Seq(0 .. 255)
      BY <1>9
    <3>2. pieces \in [1 .. groups -> Seq(0 .. 255)]
      <4> HIDE DEF value
      <4> QED
        BY <3>1
    <3> HIDE DEF pieces
    <3> QED
      BY <2>1, <3>2, SeqDef, LenProperties
  <2> HIDE DEF pieces
  <2> DEFINE l == Len(pieces[groups])
  <2>3. l \in 1 .. 3 /\ groups \in 1 .. groups
    <3>1. groups \in 1 .. groups
      BY <2>1
    <3>2. size(groups) \in 2 .. 4 /\ l = size(groups) - 1
      BY <1>7, <1>9, <3>1
    <3> HIDE DEF l
    <3> QED
      BY <3>1, <3>2
  <2>4. \A k \in 1 .. groups - 1 : Len(pieces[k]) = 3
    <3> SUFFICES ASSUME NEW k \in 1 .. groups - 1 PROVE Len(pieces[k]) = 3
      OBVIOUS
    <3>1. k \in 1 .. groups /\ k # groups
      BY <2>1
    <3>2. size(k) = 4 /\ Len(pieces[k]) = size(k) - 1
      BY <1>7, <1>9, <3>1
    <3> QED
      BY <3>2
  <2>5. 3 * (groups - 1) + l = total
    <3>1. l = (IF groups <= q THEN 4 ELSE r) - 1
      BY <1>5, <1>9, <2>3
    <3> HIDE DEF l
    <3> QED
      BY <1>3, <1>6, <2>1, <3>1
  <2> DEFINE e(m) == pieces[((m - 1) \div 3) + 1][((m - 1) % 3) + 1]
  <2>6. FlattenSeq(pieces) = [m \in 1 .. 3 * (groups - 1) + l |-> e(m)]
    <3>1. InThrees(pieces, groups)
      BY <2>3, <2>4, Zenon DEF InThrees
    <3>2. FlattenSeq(pieces) = ByThrees(pieces, groups)
      BY <2>1, <2>2, <3>1, FlatThrees, Zenon
    <3> QED
      BY <3>2, Zenon DEF ByThrees
  <2>7. ASSUME NEW m \in 1 .. total PROVE e(m) = ByteAt(src, 8 * (m - 1)) /\ e(m) \in 0 .. 255
    <3> HIDE DEF l
    <3>1. PICK a \in 0 .. groups - 1, d \in 0 .. 2 :
              /\ m - 1 = 3 * a + d /\ (m - 1) \div 3 = a /\ (m - 1) % 3 = d
              /\ a = groups - 1 => d < l
              /\ 8 * (m - 1) = 6 * (4 * a) + 8 * d
      BY <2>1, <2>3, <2>5, PlaceInGroups
    <3> DEFINE k == a + 1
    <3>2. k \in 1 .. groups /\ k - 1 = a
      BY <2>1
    <3>3. e(m) = pieces[k][d + 1]
      BY <3>1, Zenon
    <3> HIDE DEF e, k
    <3>4. size(k) \in 2 .. 4 /\ d < size(k) - 1
      <4>1. CASE k = groups
        <5>1. size(k) \in 2 .. 4 /\ l = size(k) - 1
          BY <1>7, <1>9, <3>2, <4>1 DEF l
        <5> QED
          BY <3>1, <3>2, <4>1, <5>1
      <4>2. CASE k # groups
        BY <1>7, <3>2, <4>2
      <4> QED
        BY <4>1, <4>2
    <3>5. /\ pieces[k] \in Seq(0 .. 255) /\ Len(pieces[k]) = size(k) - 1
          /\ pieces[k][1] = ByteAt(src, 6 * (4 * a))
          /\ size(k) > 2 => pieces[k][2] = ByteAt(src, 6 * (4 * a) + 8)
          /\ size(k) > 3 => pieces[k][3] = ByteAt(src, 6 * (4 * a) + 16)
      BY <1>9, <3>2
    <3>6. pieces[k][d + 1] \in 0 .. 255
      <4>1. d + 1 \in 1 .. Len(pieces[k])
        BY <3>4, <3>5
      <4> QED
        BY <3>5, <4>1, ElementOfSeq
    <3>7. pieces[k][d + 1] = ByteAt(src, 8 * (m - 1))
      <4>1. CASE d = 0
        <5>1. d + 1 = 1 /\ 8 * (m - 1) = 6 * (4 * a)
          BY <3>1, <4>1
        <5> QED
          BY <3>5, <5>1
      <4>2. CASE d = 1
        <5>1. d + 1 = 2 /\ 8 * (m - 1) = 6 * (4 * a) + 8 /\ size(k) > 2
          BY <3>1, <3>4, <4>2
        <5> QED
          BY <3>5, <5>1
      <4>3. CASE d = 2
        <5>1. d + 1 = 3 /\ 8 * (m - 1) = 6 * (4 * a) + 16 /\ size(k) > 3
          BY <3>1, <3>4, <4>3
        <5> QED
          BY <3>5, <5>1
      <4> QED
        BY <4>1, <4>2, <4>3
    <3> QED
      BY <3>3, <3>6, <3>7
  <2> HIDE DEF e, l
  <2>8. [m \in 1 .. total |-> e(m)] = [m \in 1 .. total |-> ByteAt(src, 8 * (m - 1))]
    BY <2>7, Zenon
  <2>9. Base64(src, cap).bytes = Decoded64(src)
    BY <1>1, <1>10, <2>5, <2>6, <2>8
  <2>10. Decoded64(src) \in [1 .. total -> 0 .. 255]
    <3>1. [m \in 1 .. total |-> e(m)] \in [1 .. total -> 0 .. 255]
      BY <2>7
    <3> QED
      BY <1>10, <2>8, <3>1, Zenon
  <2>11. Decoded64(src) \in Seq(0 .. 255) /\ Len(Decoded64(src)) = total
    BY <1>4, <2>10, SeqDef, LenProperties
  <2> QED
    BY <2>9, <2>11 DEF total
<1> QED
  BY <1>11, <1>12

(* The order of the checks: what each stage has already found in order.    *)
Stage == {"idle", "split", "header", "payload", "sig", "key", "verify", "said"}
Function == {"ES256", "RS256"}

JwtInv == /\ stage \in Stage
          /\ pk = (stage = "verify")
          /\ stage # "idle" => jwt \in Tokens /\ fn \in Function
          /\ stage \in {"header", "payload", "sig", "key", "verify"} => jwt.split
          /\ stage \in {"payload", "sig", "key", "verify"} => jwt.alg = fn
          /\ stage \in {"sig", "key", "verify"} => jwt.exp \notin {"broken", "absent", "past"}
          /\ stage \in {"key", "verify"} => Refusal(fn, jwt) = "none"
          /\ stage = "said" => IF Refusal(fn, jwt) = "none" THEN said \in {"OK", "CRYPTO"}
                              ELSE said = Refusal(fn, jwt)

SigFits(f, t) == /\ Decodes(t.sig, SigCap) /\ (Len(t.sig) * 6) \div 8 > 0
                 /\ f = "ES256" => (Len(t.sig) * 6) \div 8 = 2 * Half

LEMMA Refusals ==
  ASSUME NEW f \in Function, NEW t
  PROVE  /\ ~t.split => Refusal(f, t) = "INVALID_FORMAT"
         /\ t.split /\ t.alg = "broken" => Refusal(f, t) = "DECODE"
         /\ t.split /\ t.alg \notin {"broken", f} => Refusal(f, t) = "INVALID_ALG"
         /\ t.split /\ t.alg = f /\ t.exp = "broken" => Refusal(f, t) = "DECODE"
         /\ t.split /\ t.alg = f /\ t.exp = "absent" => Refusal(f, t) = "NO_EXP"
         /\ t.split /\ t.alg = f /\ t.exp = "past" => Refusal(f, t) = "EXPIRED"
         /\ t.split /\ t.alg = f /\ t.exp \notin {"broken", "absent", "past"} =>
              Refusal(f, t) = IF SigFits(f, t) THEN "none" ELSE "INVALID_FORMAT"
<1>1. f # "broken"
  BY DEF Function
<1> QED
  BY <1>1 DEF Refusal, SigFits

LEMMA SigChecked ==
  ASSUME Described, NEW t \in Tokens, t.split, NEW f \in Function,
         NEW b, b = Base64(t.sig, IF f = "ES256" THEN 2 * Half ELSE SigCap)
  PROVE  (~b.ok \/ b.bytes = <<>> \/ (f = "ES256" /\ Len(b.bytes) # 2 * Half)) <=> ~SigFits(f, t)
<1> DEFINE n == (Len(t.sig) * 6) \div 8
           plain == (\A k \in DOMAIN t.sig : Char(t.sig[k]) # -1) /\ Len(t.sig) % 4 # 1
<1>1. Half \in Nat /\ SigCap \in Nat /\ 2 * Half \in Nat /\ 2 * Half > 0 /\ 2 * Half <= SigCap
  BY JwtAssumption
<1>2. t.sig \in Seq(Int) /\ (b.ok => Len(b.bytes) = n /\ b.bytes \in Seq(0 .. 255))
  <2>1. t.sig \in Seq(Int)
    BY Zenon DEF Described
  <2> DEFINE cap == IF f = "ES256" THEN 2 * Half ELSE SigCap
  <2>2. cap \in Nat
    BY <1>1
  <2> HIDE DEF cap
  <2>3. b = Base64(t.sig, cap)
    BY DEF cap
  <2>4. b.ok => b.bytes = Decoded64(t.sig) /\ Decoded64(t.sig) \in Seq(0 .. 255) /\ Len(Decoded64(t.sig)) = n
    BY <2>1, <2>2, <2>3, Base64Bytes
  <2> HIDE DEF n
  <2> QED
    BY <2>1, <2>4
<1>3. n \in Nat
  <2>1. Len(t.sig) \in Nat
    BY <1>2
  <2> QED
    BY <2>1, Total, Zenon
<1>4. \A c : Decodes(t.sig, c) <=> plain /\ n <= c
  BY DEF Decodes
<1>5. b.ok \in BOOLEAN /\ (b.ok <=> plain /\ n <= (IF f = "ES256" THEN 2 * Half ELSE SigCap))
  BY <1>1, <1>2, <1>4, Base64Ok, ZenonT(30)
<1>6. SigFits(f, t) <=> plain /\ n <= SigCap /\ n > 0 /\ (f = "ES256" => n = 2 * Half)
  BY <1>4, Zenon DEF SigFits
<1> HIDE DEF n, plain
<1>7. b.ok => (b.bytes = <<>> <=> n = 0)
  BY <1>2
<1>8. CASE f = "ES256"
  <2>1. b.ok => Len(b.bytes) = n
    BY <1>2
  <2>2. SigFits(f, t) <=> b.ok /\ n = 2 * Half
    BY <1>1, <1>3, <1>5, <1>6, <1>8
  <2> QED
    BY <1>1, <1>3, <1>7, <1>8, <2>1, <2>2
<1>9. CASE f = "RS256"
  BY <1>1, <1>2, <1>3, <1>5, <1>6, <1>7, <1>9
<1> QED
  BY <1>8, <1>9 DEF Function

LEMMA Tells ==
  ASSUME Described, NEW t \in Tokens, NEW p, p = Split(t.text)
  PROVE  /\ t.split \in BOOLEAN /\ p.ok = t.split
         /\ t.split => p.sig = t.sig
  BY Zenon DEF Described

LEMMA HeaderTells ==
  ASSUME Described, NEW t \in Tokens, t.split, NEW h, h = Base64(Split(t.text).header, HdrCap)
  PROVE  h.ok = (t.alg # "broken") /\ (h.ok => ParseAlg(h.bytes) = t.alg)
  BY Zenon DEF Described

LEMMA PayloadTells ==
  ASSUME Described, NEW t \in Tokens, t.split,
         NEW d, d = Base64(Split(t.text).payload, PayCap), NEW e, e = ParseExp(d.bytes)
  PROVE  /\ d.ok = (t.exp # "broken")
         /\ d.ok => e.found = (t.exp # "absent")
         /\ d.ok /\ e.found => (Now >= e.exp) = (t.exp = "past")
  BY Zenon DEF Described

LEMMA JwtStep ==
  ASSUME Described, JwtInv, [JwtNext]_jwtVars PROVE JwtInv'
<1> USE DEF Stage, Function
<1>1. CASE stage = "idle" /\ JwtCall
  BY <1>1 DEF JwtInv, JwtCall
<1>2. CASE CheckSplit
  <2>1. Parts.ok = jwt.split /\ jwt.split \in BOOLEAN
    BY <1>2, Tells DEF CheckSplit, JwtInv, Parts
  <2> QED
    BY <1>2, <2>1, Refusals DEF CheckSplit, Say, JwtInv
<1>3. CASE CheckHeader
  <2>1. PICK d : d = Base64(Parts.header, HdrCap)
    OBVIOUS
  <2>2. d.ok = (jwt.alg # "broken") /\ (d.ok => ParseAlg(d.bytes) = jwt.alg)
    BY <1>3, <2>1, HeaderTells DEF CheckHeader, JwtInv, Parts
  <2>3. \/ ~d.ok /\ Say("DECODE")
        \/ d.ok /\ jwt.alg # fn /\ Say("INVALID_ALG")
        \/ d.ok /\ jwt.alg = fn /\ stage' = "payload" /\ UNCHANGED said
    BY <1>3, <2>1, <2>2 DEF CheckHeader
  <2> QED
    BY <1>3, <2>2, <2>3, Refusals DEF CheckHeader, Say, JwtInv
<1>4. CASE CheckPayload
  <2>1. PICK d : d = Base64(Parts.payload, PayCap)
    OBVIOUS
  <2>2. PICK e : e = ParseExp(d.bytes)
    OBVIOUS
  <2>3. /\ d.ok = (jwt.exp # "broken")
        /\ d.ok => e.found = (jwt.exp # "absent")
        /\ d.ok /\ e.found => (Now >= e.exp) = (jwt.exp = "past")
    BY <1>4, <2>1, <2>2, PayloadTells DEF CheckPayload, JwtInv, Parts
  <2>4. \/ ~d.ok /\ Say("DECODE")
        \/ d.ok /\ ~e.found /\ Say("NO_EXP")
        \/ d.ok /\ e.found /\ Now >= e.exp /\ Say("EXPIRED")
        \/ d.ok /\ e.found /\ ~(Now >= e.exp) /\ stage' = "sig" /\ UNCHANGED said
    BY <1>4, <2>1, <2>2 DEF CheckPayload
  <2> QED
    BY <1>4, <2>3, <2>4, Refusals DEF CheckPayload, Say, JwtInv
<1>5. CASE CheckSig
  <2>1. PICK d : d = Base64(jwt.sig, IF fn = "ES256" THEN 2 * Half ELSE SigCap)
    OBVIOUS
  <2>2. Parts.sig = jwt.sig
    BY <1>5, Tells DEF CheckSig, JwtInv, Parts
  <2>3. (~d.ok \/ d.bytes = <<>> \/ (fn = "ES256" /\ Len(d.bytes) # 2 * Half)) <=> ~SigFits(fn, jwt)
    BY <1>5, <2>1, SigChecked DEF CheckSig, JwtInv
  <2>4. \/ ~SigFits(fn, jwt) /\ Say("INVALID_FORMAT")
        \/ SigFits(fn, jwt) /\ stage' = "key" /\ UNCHANGED said
    BY <1>5, <2>1, <2>2, <2>3 DEF CheckSig
  <2> QED
    BY <1>5, <2>4, Refusals DEF CheckSig, Say, JwtInv
<1>6. CASE ParseKey
  BY <1>6 DEF ParseKey, Say, JwtInv
<1>7. CASE Verify
  BY <1>7 DEF Verify, Say, JwtInv
<1>8. CASE JwtReturn
  BY <1>8 DEF JwtReturn, JwtInv
<1>9. CASE UNCHANGED jwtVars
  BY <1>9 DEF jwtVars, JwtInv
<1> QED
  BY <1>1, <1>2, <1>3, <1>4, <1>5, <1>6, <1>7, <1>8, <1>9 DEF JwtNext

(* A token is accepted only when every part of it is in order, one that is *)
(* refused is told the first thing that is wrong with it                   *)
(* (dsp_jwt_validate_es256, dsp_jwt_validate_rs256), and the key context   *)
(* is released whatever the outcome, for any tokens that are what they are *)
(* described to be.                                                        *)
THEOREM VerdictAlwaysRight ==
  Described => (JwtSpec => []VerdictRight)
<1> SUFFICES ASSUME Described PROVE JwtSpec => []VerdictRight
  OBVIOUS
<1>1. JwtInit => JwtInv
  BY DEF JwtInit, JwtInv, Stage
<1>2. JwtInv /\ [JwtNext]_jwtVars => JwtInv'
  BY JwtStep
<1>3. JwtInv => VerdictRight
  BY DEF JwtInv, VerdictRight
<1> QED
  BY <1>1, <1>2, <1>3, PTL DEF JwtSpec

-----------------------------------------------------------------------------
(* The signature: an ES256 one in DER.                                     *)
Parted(s, t, r) == /\ Len(r) = Len(s) + Len(t)
                   /\ \A i \in 1 .. Len(s) : r[i] = s[i]
                   /\ \A i \in 1 .. Len(t) : r[Len(s) + i] = t[i]

LEMMA JoinedParts ==
    ASSUME NEW s, NEW t, NEW r, s \in Seq(Nat), t \in Seq(Nat), r = s \o t
    PROVE  r \in Seq(Nat) /\ Parted(s, t, r)
  BY ConcatAt DEF Parted

(* Two integers in a frame.                                                *)
Framing(p, q, n) == <<48, n>> \o ((<<2, Len(p)>> \o p) \o (<<2, Len(q)>> \o q))

FramedAs(s, p, q, n) ==
    /\ s \in Seq(Nat) /\ Len(s) = 6 + Len(p) + Len(q)
    /\ s[1] = 48 /\ s[2] = n /\ s[3] = 2 /\ s[4] = Len(p)
    /\ s[5 + Len(p)] = 2 /\ s[6 + Len(p)] = Len(q)
    /\ SubSeq(s, 5, 4 + Len(p)) = p
    /\ SubSeq(s, 7 + Len(p), Len(s)) = q

LEMMA FramedAt ==
    ASSUME NEW p, NEW q, NEW n, NEW s, p \in Seq(Nat), q \in Seq(Nat), n \in Nat, s = Framing(p, q, n)
    PROVE  FramedAs(s, p, q, n)
<1> DEFINE h == <<48, n>>
           hp == <<2, Len(p)>>
           hq == <<2, Len(q)>>
           ip == hp \o p
           iq == hq \o q
           whole == ip \o iq
           lp == Len(p)
           lq == Len(q)
<1>1. lp \in Nat /\ lq \in Nat
  OBVIOUS
<1>2. /\ h \in Seq(Nat) /\ Len(h) = 2 /\ h[1] = 48 /\ h[2] = n
      /\ hp \in Seq(Nat) /\ Len(hp) = 2 /\ hp[1] = 2 /\ hp[2] = lp
      /\ hq \in Seq(Nat) /\ Len(hq) = 2 /\ hq[1] = 2 /\ hq[2] = lq
  OBVIOUS
<1>3. s = h \o whole
  BY DEF Framing
<1> HIDE DEF h, hp, hq
<1>4. /\ ip \in Seq(Nat) /\ Len(ip) = 2 + lp /\ ip[1] = 2 /\ ip[2] = lp
      /\ \A i \in 1 .. lp : ip[2 + i] = p[i]
  <2>1. /\ ip \in Seq(Nat) /\ Len(ip) = Len(hp) + Len(p)
        /\ \A i \in 1 .. Len(hp) : ip[i] = hp[i]
        /\ \A i \in 1 .. Len(p) : ip[Len(hp) + i] = p[i]
    <3>1. ip = hp \o p
      OBVIOUS
    <3>2. ip \in Seq(Nat) /\ Parted(hp, p, ip)
      <4> HIDE DEF ip
      <4> QED
        BY <1>2, <3>1, JoinedParts, Zenon
    <3> QED
      BY <3>2, Zenon DEF Parted
  <2>2. 1 \in 1 .. 2 /\ 2 \in 1 .. 2
    OBVIOUS
  <2> HIDE DEF ip
  <2> QED
    BY <1>2, <2>1, <2>2
<1>5. /\ iq \in Seq(Nat) /\ Len(iq) = 2 + lq /\ iq[1] = 2 /\ iq[2] = lq
      /\ \A i \in 1 .. lq : iq[2 + i] = q[i]
  <2>1. /\ iq \in Seq(Nat) /\ Len(iq) = Len(hq) + Len(q)
        /\ \A i \in 1 .. Len(hq) : iq[i] = hq[i]
        /\ \A i \in 1 .. Len(q) : iq[Len(hq) + i] = q[i]
    <3>1. iq = hq \o q
      OBVIOUS
    <3>2. iq \in Seq(Nat) /\ Parted(hq, q, iq)
      <4> HIDE DEF iq
      <4> QED
        BY <1>2, <3>1, JoinedParts, Zenon
    <3> QED
      BY <3>2, Zenon DEF Parted
  <2>2. 1 \in 1 .. 2 /\ 2 \in 1 .. 2
    OBVIOUS
  <2> HIDE DEF iq
  <2> QED
    BY <1>2, <2>1, <2>2
<1> HIDE DEF ip, iq
<1>6. /\ whole \in Seq(Nat) /\ Len(whole) = 4 + lp + lq
      /\ \A i \in 1 .. 2 + lp : whole[i] = ip[i]
      /\ \A i \in 1 .. 2 + lq : whole[2 + lp + i] = iq[i]
  <2>1. /\ whole \in Seq(Nat) /\ Len(whole) = Len(ip) + Len(iq)
        /\ \A i \in 1 .. Len(ip) : whole[i] = ip[i]
        /\ \A i \in 1 .. Len(iq) : whole[Len(ip) + i] = iq[i]
    <3>1. whole = ip \o iq
      OBVIOUS
    <3>2. whole \in Seq(Nat) /\ Parted(ip, iq, whole)
      <4> HIDE DEF whole
      <4> QED
        BY <1>4, <1>5, <3>1, JoinedParts, Zenon
    <3> QED
      BY <3>2, Zenon DEF Parted
  <2> HIDE DEF whole, lp, lq
  <2>2. Len(ip) + Len(iq) = 4 + lp + lq
    BY <1>1, <1>4, <1>5
  <2> QED
    BY <1>4, <1>5, <2>1, <2>2, Zenon
<1> HIDE DEF whole
<1>7. /\ s \in Seq(Nat) /\ Len(s) = 6 + lp + lq /\ s[1] = 48 /\ s[2] = n
      /\ \A i \in 1 .. 4 + lp + lq : s[2 + i] = whole[i]
  <2>1. /\ s \in Seq(Nat) /\ Len(s) = Len(h) + Len(whole)
        /\ \A i \in 1 .. Len(h) : s[i] = h[i]
        /\ \A i \in 1 .. Len(whole) : s[Len(h) + i] = whole[i]
    <3>1. s = h \o whole
      BY <1>3
    <3>2. s \in Seq(Nat) /\ Parted(h, whole, s)
      <4> QED
        BY <1>2, <1>3, <1>6, <3>1, JoinedParts, Zenon
    <3> QED
      BY <3>2, Zenon DEF Parted
  <2>2. 1 \in 1 .. 2 /\ 2 \in 1 .. 2
    OBVIOUS
  <2> HIDE DEF lp, lq
  <2>3. Len(s) = 6 + lp + lq
    BY <1>1, <1>2, <1>6, <2>1
  <2>4. s[1] = 48 /\ s[2] = n
    BY <1>2, <2>1, <2>2
  <2> QED
    BY <1>2, <1>6, <2>1, <2>3, <2>4, Zenon
<1> HIDE DEF lp, lq
<1>8. s[3] = 2 /\ s[4] = lp
  <2>1. /\ 1 \in 1 .. 4 + lp + lq /\ 2 \in 1 .. 4 + lp + lq /\ 1 \in 1 .. 2 + lp /\ 2 \in 1 .. 2 + lp
        /\ 2 + 1 = 3 /\ 2 + 2 = 4
    BY <1>1
  <2>2. s[2 + 1] = ip[1] /\ s[2 + 2] = ip[2]
    BY <1>6, <1>7, <2>1, Zenon
  <2> QED
    BY <1>4, <2>1, <2>2
<1>9. s[5 + lp] = 2 /\ s[6 + lp] = lq
  <2>1. /\ 2 + lp + 1 \in 1 .. 4 + lp + lq /\ 2 + lp + 2 \in 1 .. 4 + lp + lq
        /\ 1 \in 1 .. 2 + lq /\ 2 \in 1 .. 2 + lq
        /\ 2 + (2 + lp + 1) = 5 + lp /\ 2 + (2 + lp + 2) = 6 + lp
    BY <1>1
  <2>2. s[2 + (2 + lp + 1)] = whole[2 + lp + 1] /\ s[2 + (2 + lp + 2)] = whole[2 + lp + 2]
    BY <1>7, <2>1, Zenon
  <2>3. whole[2 + lp + 1] = iq[1] /\ whole[2 + lp + 2] = iq[2]
    BY <1>6, <2>1, Zenon
  <2> QED
    BY <1>5, <2>1, <2>2, <2>3
<1>10. \A i \in 1 .. lp : s[4 + i] = p[i]
  <2> SUFFICES ASSUME NEW i \in 1 .. lp PROVE s[4 + i] = p[i]
    OBVIOUS
  <2>1. 2 + i \in 1 .. 4 + lp + lq /\ 2 + i \in 1 .. 2 + lp /\ 2 + (2 + i) = 4 + i
    BY <1>1
  <2>2. s[2 + (2 + i)] = whole[2 + i]
    BY <1>7, <2>1, Zenon
  <2>3. whole[2 + i] = ip[2 + i] /\ ip[2 + i] = p[i]
    BY <1>4, <1>6, <2>1, Zenon
  <2> QED
    BY <2>1, <2>2, <2>3
<1>11. \A i \in 1 .. lq : s[6 + lp + i] = q[i]
  <2> SUFFICES ASSUME NEW i \in 1 .. lq PROVE s[6 + lp + i] = q[i]
    OBVIOUS
  <2>1. /\ 2 + lp + (2 + i) \in 1 .. 4 + lp + lq /\ 2 + i \in 1 .. 2 + lq
        /\ 2 + (2 + lp + (2 + i)) = 6 + lp + i
    BY <1>1
  <2>2. s[2 + (2 + lp + (2 + i))] = whole[2 + lp + (2 + i)]
    BY <1>7, <2>1, Zenon
  <2>3. whole[2 + lp + (2 + i)] = iq[2 + i] /\ iq[2 + i] = q[i]
    BY <1>5, <1>6, <2>1, Zenon
  <2> QED
    BY <2>1, <2>2, <2>3
<1>12. SubSeq(s, 5, 4 + lp) = p
  <2>1. 4 \in Nat /\ 4 + lp \in Int /\ 4 + lp = 4 + Len(p) /\ 4 + lp <= Len(s) /\ 4 + 1 = 5
    BY <1>1, <1>7 DEF lp
  <2>2. \A i \in 1 .. Len(p) : s[4 + i] = p[i]
    BY <1>10 DEF lp
  <2>3. SubSeq(s, 4 + 1, 4 + lp) = p
    BY <1>7, <2>1, <2>2, Segment
  <2> QED
    BY <2>1, <2>3
<1>13. SubSeq(s, 7 + lp, Len(s)) = q
  <2> DEFINE a == 6 + lp
             b == Len(s)
  <2>1. a \in Nat /\ b \in Int /\ b <= Len(s) /\ a + 1 = 7 + lp
    BY <1>1, <1>7
  <2>a. b = a + lq
    BY <1>1, <1>7
  <2>2. \A i \in 1 .. Len(q) : s[a + i] = q[i]
    BY <1>11 DEF lq
  <2> HIDE DEF a, b
  <2>b. b = a + Len(q)
    BY <2>a DEF lq
  <2>3. SubSeq(s, a + 1, b) = q
    BY <1>7, <2>1, <2>b, <2>2, Segment
  <2> QED
    BY <2>1, <2>3 DEF b
<1> QED
  BY <1>7, <1>8, <1>9, <1>12, <1>13, Zenon DEF lp, lq, FramedAs

Padded(h) == IF h[1] >= 128 THEN <<0>> \o h ELSE h
Value(b) == IF Len(b) > Half THEN Tail(b) ELSE b

LEMMA PaddedIs ==
    ASSUME NEW h, h \in Seq(0 .. 255), Len(h) = Half
    PROVE  /\ Padded(h) \in Seq(Nat) /\ Len(Padded(h)) \in Half .. Half + 1
           /\ Padded(h)[1] < 128 /\ Value(Padded(h)) = h
<1>1. Half \in Nat /\ Half >= 1
  BY JwtAssumption
<1>2. h \in Seq(Nat) /\ h[1] \in 0 .. 255 /\ 1 \in 1 .. Half
  <2>1. \A i \in 1 .. Len(h) : h[i] \in 0 .. 255
    BY ElementOfSeq
  <2>2. h \in [1 .. Half -> Nat]
    <3>1. DOMAIN h = 1 .. Half /\ h = [i \in 1 .. Len(h) |-> h[i]]
      BY FunctionOfSeq, LenProperties
    <3>2. \A i \in 1 .. Half : h[i] \in Nat
      <4>1. \A x \in 0 .. 255 : x \in Nat
        OBVIOUS
      <4>2. \A i \in 1 .. Half : h[i] \in 0 .. 255
        BY <2>1
      <4> QED
        BY <4>1, <4>2, Zenon
    <3> QED
      BY <3>1, <3>2
  <2>3. 1 \in 1 .. Half
    BY <1>1
  <2> QED
    BY <1>1, <2>1, <2>2, <2>3, SeqDef
<1>3. CASE h[1] >= 128
  <2> DEFINE z == <<0>>
             p == z \o h
  <2>1. z \in Seq(Nat) /\ Len(z) = 1 /\ z[1] = 0 /\ z # <<>>
    OBVIOUS
  <2>2. Padded(h) = p
    BY <1>3 DEF Padded
  <2> HIDE DEF z
  <2>3. p = z \o h
    OBVIOUS
  <2> HIDE DEF p
  <2>4. p \in Seq(Nat) /\ Parted(z, h, p)
    BY <1>2, <2>1, <2>3, JoinedParts, Zenon
  <2>5. Len(p) = 1 + Half /\ 1 + Half = Half + 1 /\ 1 + Half > Half
    BY <1>1, <2>1, <2>4 DEF Parted
  <2>6. p[1] = 0
    <3>1. 1 \in 1 .. Len(z)
      BY <2>1
    <3> QED
      BY <2>1, <2>4, <3>1, Zenon DEF Parted
  <2>7. Tail(p) = h
    <3>1. p # <<>>
      BY <1>1, <2>5
    <3>2. Tail(p) = SubSeq(p, 2, Len(p))
      BY <2>4, <3>1, TailIsSubSeq
    <3>3. \A i \in 1 .. Len(h) : p[1 + i] = h[i]
      BY <2>1, <2>4 DEF Parted
    <3> DEFINE b == Len(p)
    <3>4. b = 1 + Len(h) /\ b <= Len(p) /\ b \in Int
      BY <1>1, <2>4, <2>5
    <3> HIDE DEF b
    <3>5. 1 \in Nat
      OBVIOUS
    <3>6. SubSeq(p, 1 + 1, b) = h
      BY <1>2, <2>4, <3>3, <3>4, <3>5, Segment
    <3>7. 1 + 1 = 2
      OBVIOUS
    <3> QED
      BY <3>2, <3>6, <3>7 DEF b
  <2>8. Value(p) = h
    BY <2>5, <2>7 DEF Value
  <2> QED
    BY <1>1, <2>2, <2>4, <2>5, <2>6, <2>8
<1>4. CASE ~(h[1] >= 128)
  <2>1. Padded(h) = h
    BY <1>4 DEF Padded
  <2>2. h[1] < 128
    BY <1>2, <1>4
  <2>3. Value(h) = h
    BY <1>1 DEF Value
  <2> QED
    BY <1>1, <1>2, <2>1, <2>2, <2>3
<1> QED
  BY <1>3, <1>4

LEMMA HalvesJoin ==
    ASSUME NEW raw, raw \in Seq(0 .. 255), Len(raw) = 2 * Half
    PROVE  LET a == SubSeq(raw, 1, Half)
               b == SubSeq(raw, Half + 1, 2 * Half)
           IN /\ a \in Seq(0 .. 255) /\ Len(a) = Half
              /\ b \in Seq(0 .. 255) /\ Len(b) = Half
              /\ a \o b = raw
<1> DEFINE a == SubSeq(raw, 1, Half)
           b == SubSeq(raw, Half + 1, 2 * Half)
           B == 0 .. 255
<1>1. Half \in Nat /\ Half >= 1 /\ Half <= 2 * Half /\ 2 * Half \in Int /\ Half + 1 \in Int
  BY JwtAssumption
<1> HIDE DEF B
<1>0. raw \in Seq(B)
  BY DEF B
<1>2. a \in Seq(B) /\ Len(a) = Half /\ \A i \in 1 .. Half : a[i] = raw[i]
  <2>1. Half <= Len(raw)
    BY <1>1
  <2> QED
    BY <1>0, <1>1, <2>1, PrefixOf
<1>3. b \in Seq(B) /\ Len(b) = Half /\ \A i \in 1 .. Half : b[i] = raw[Half + i]
  <2>1. \A i \in Half + 1 .. 2 * Half : raw[i] \in B
    <3>1. \A i \in Half + 1 .. 2 * Half : i \in 1 .. Len(raw)
      BY <1>1
    <3> QED
      BY <1>0, <3>1, ElementOfSeq
  <2>2. /\ b \in Seq(B) /\ Len(b) = IF Half + 1 <= 2 * Half THEN 2 * Half - (Half + 1) + 1 ELSE 0
        /\ \A i \in 1 .. 2 * Half - (Half + 1) + 1 : b[i] = raw[(Half + 1) + i - 1]
    BY <1>1, <2>1, SubSeqProperties
  <2>3. 2 * Half - (Half + 1) + 1 = Half /\ Half + 1 <= 2 * Half
    BY <1>1
  <2>4. \A i \in 1 .. Half : (Half + 1) + i - 1 = Half + i
    BY <1>1
  <2> QED
    BY <2>2, <2>3, <2>4, Zenon
<1> HIDE DEF a, b
<1>4. /\ a \o b \in Seq(B) /\ Len(a \o b) = Len(a) + Len(b)
      /\ \A i \in 1 .. Len(a) : (a \o b)[i] = a[i]
      /\ \A i \in 1 .. Len(b) : (a \o b)[Len(a) + i] = b[i]
  BY <1>2, <1>3, ConcatAt
<1>5. Len(a \o b) = Len(raw)
  BY <1>1, <1>2, <1>3, <1>4
<1>6. ASSUME NEW i \in 1 .. Len(raw) PROVE (a \o b)[i] = raw[i]
  <2>1. i \in Nat /\ i >= 1 /\ i <= 2 * Half
    BY <1>1
  <2>2. CASE i <= Half
    <3>1. i \in 1 .. Half
      BY <1>1, <2>1, <2>2
    <3> QED
      BY <1>2, <1>4, <3>1
  <2>3. CASE ~(i <= Half)
    <3> DEFINE j == i - Half
    <3>1. j \in 1 .. Half /\ Half + j = i
      BY <1>1, <2>1, <2>3
    <3> HIDE DEF j
    <3>2. (a \o b)[Half + j] = b[j] /\ b[j] = raw[Half + j]
      BY <1>2, <1>3, <1>4, <3>1
    <3> QED
      BY <3>1, <3>2
  <2> QED
    BY <2>2, <2>3
<1>7. a \o b = raw
  <2> DEFINE c == a \o b
  <2>1. c \in Seq(B) /\ Len(c) = Len(raw) /\ \A i \in 1 .. Len(c) : c[i] = raw[i]
    BY <1>4, <1>5, <1>6
  <2> HIDE DEF c
  <2>2. c = raw
    BY <1>0, <2>1, SeqEqual
  <2> QED
    BY <2>2 DEF c
<1> QED
  BY <1>2, <1>3, <1>7, Zenon DEF a, b, B

(* SignatureTrue of a signature, the bytes it stands for and a function.   *)
Faithful(s, raw, f) ==
    LET r == s[4]
        first == SubSeq(s, 5, 4 + r)
        second == SubSeq(s, 7 + r, Len(s))
    IN IF f = "RS256" THEN s = raw
       ELSE /\ s[1] = 48 /\ s[2] = Len(s) - 2 /\ Len(s) <= 2 * Half + 8
            /\ s[3] = 2 /\ s[5 + r] = 2 /\ s[6 + r] = Len(second)
            /\ first[1] < 128 /\ second[1] < 128
            /\ Value(first) \o Value(second) = raw

LEMMA FaithfulIs == SignatureTrue <=> (sig # <<>> => Faithful(sig, Decoded64(jwt.sig), fn))
  BY Zenon DEF SignatureTrue, Faithful, Value

LEMMA DerFaithful ==
    ASSUME NEW raw, raw \in Seq(0 .. 255), Len(raw) = 2 * Half
    PROVE  Faithful(Der(raw), raw, "ES256")
<1> DEFINE a == SubSeq(raw, 1, Half)
           b == SubSeq(raw, Half + 1, 2 * Half)
           p == Padded(a)
           q == Padded(b)
           ia == <<2, Len(p)>> \o p
           ib == <<2, Len(q)>> \o q
           whole == ia \o ib
           n == Len(whole)
           s == Der(raw)
<1>1. Half \in Nat /\ Half >= 1
  BY JwtAssumption
<1>2. /\ a \in Seq(0 .. 255) /\ Len(a) = Half
      /\ b \in Seq(0 .. 255) /\ Len(b) = Half /\ a \o b = raw
  BY HalvesJoin
<1>3. Integer(a) = ia /\ Integer(b) = ib
  BY DEF Integer, Padded
<1>4. s = <<48, n>> \o whole
  BY <1>3 DEF Der
<1> HIDE DEF a, b
<1>5. /\ p \in Seq(Nat) /\ Len(p) \in Half .. Half + 1 /\ p[1] < 128 /\ Value(p) = a
      /\ q \in Seq(Nat) /\ Len(q) \in Half .. Half + 1 /\ q[1] < 128 /\ Value(q) = b
  BY <1>2, PaddedIs, Zenon
<1> HIDE DEF p, q
<1>6. s = Framing(p, q, n)
  BY <1>4 DEF Framing
<1>7. n \in Nat
  <2>1. <<2, Len(p)>> \in Seq(Nat) /\ <<2, Len(q)>> \in Seq(Nat)
    BY <1>5
  <2>2. ia \in Seq(Nat) /\ ib \in Seq(Nat)
    BY <1>5, <2>1
  <2> HIDE DEF ia, ib
  <2> QED
    BY <2>2
<1>8. n = 4 + Len(p) + Len(q)
  <2> DEFINE hp == <<2, Len(p)>>
             hq == <<2, Len(q)>>
  <2>1. hp \in Seq(Nat) /\ Len(hp) = 2 /\ hq \in Seq(Nat) /\ Len(hq) = 2
    BY <1>5
  <2>2. ia = hp \o p /\ ib = hq \o q
    OBVIOUS
  <2> HIDE DEF hp, hq, ia, ib
  <2>3. ia \in Seq(Nat) /\ Parted(hp, p, ia) /\ ib \in Seq(Nat) /\ Parted(hq, q, ib)
    BY <1>5, <2>1, <2>2, JoinedParts, Zenon
  <2>4. whole = ia \o ib
    OBVIOUS
  <2> HIDE DEF whole
  <2>5. Parted(ia, ib, whole)
    BY <2>3, <2>4, JoinedParts, Zenon
  <2>6. n = Len(ia) + Len(ib) /\ Len(ia) = 2 + Len(p) /\ Len(ib) = 2 + Len(q)
    BY <2>1, <2>3, <2>5, Zenon DEF Parted
  <2>7. Len(p) \in Nat /\ Len(q) \in Nat
    BY <1>5
  <2> DEFINE lp == Len(p)
             lq == Len(q)
  <2> HIDE DEF lp, lq
  <2>8. n = (2 + lp) + (2 + lq) /\ lp \in Nat /\ lq \in Nat
    BY <2>6, <2>7 DEF lp, lq
  <2>9. n = 4 + lp + lq
    BY <2>8
  <2> QED
    BY <2>9 DEF lp, lq
<1> HIDE DEF n, s, whole
<1>9. /\ s \in Seq(Nat) /\ Len(s) = 6 + Len(p) + Len(q)
      /\ s[1] = 48 /\ s[2] = n /\ s[3] = 2 /\ s[4] = Len(p)
      /\ s[5 + Len(p)] = 2 /\ s[6 + Len(p)] = Len(q)
      /\ SubSeq(s, 5, 4 + Len(p)) = p
      /\ SubSeq(s, 7 + Len(p), Len(s)) = q
  <2>1. FramedAs(s, p, q, n)
    BY <1>5, <1>6, <1>7, FramedAt, Zenon
  <2> QED
    BY <2>1, Zenon DEF FramedAs
<1>10. s[2] = Len(s) - 2 /\ Len(s) <= 2 * Half + 8
  <2> DEFINE lp == Len(p)
             lq == Len(q)
             ls == Len(s)
  <2>1. /\ ls = 6 + lp + lq /\ n = 4 + lp + lq /\ s[2] = n
        /\ lp \in Half .. Half + 1 /\ lq \in Half .. Half + 1
    BY <1>5, <1>8, <1>9
  <2> HIDE DEF lp, lq, ls
  <2>2. s[2] = ls - 2 /\ ls <= 2 * Half + 8
    BY <1>1, <2>1
  <2> QED
    BY <2>2 DEF ls
<1>11. Value(p) \o Value(q) = raw
  BY <1>2, <1>5, Zenon
<1>12. Faithful(s, raw, "ES256")
  <2>1. /\ s[1] = 48 /\ s[2] = Len(s) - 2 /\ Len(s) <= 2 * Half + 8
        /\ s[3] = 2 /\ s[5 + s[4]] = 2 /\ s[6 + s[4]] = Len(SubSeq(s, 7 + s[4], Len(s)))
        /\ SubSeq(s, 5, 4 + s[4])[1] < 128 /\ SubSeq(s, 7 + s[4], Len(s))[1] < 128
        /\ Value(SubSeq(s, 5, 4 + s[4])) \o Value(SubSeq(s, 7 + s[4], Len(s))) = raw
    BY <1>5, <1>9, <1>10, <1>11, Zenon
  <2> QED
    BY <2>1, Zenon DEF Faithful
<1> QED
  BY <1>12 DEF s

(* Nothing is held before the signature is decoded, and then what it says. *)
SigInv == /\ stage \in {"idle", "split", "header", "payload", "sig"} => sig = <<>>
          /\ sig # <<>> => Faithful(sig, Decoded64(jwt.sig), fn)

LEMMA SigStep ==
    ASSUME Described, JwtInv, SigInv, [JwtNext]_jwtVars PROVE SigInv'
<1>1. CASE stage = "idle" /\ JwtCall
  BY <1>1 DEF JwtCall, SigInv
<1>2. CASE CheckSplit
  BY <1>2 DEF CheckSplit, Say, SigInv
<1>3. CASE CheckHeader
  BY <1>3 DEF CheckHeader, Say, SigInv
<1>4. CASE CheckPayload
  BY <1>4 DEF CheckPayload, Say, SigInv
<1>5. CASE CheckSig
  <2>0. jwt \in Tokens /\ jwt.split /\ fn \in Function /\ stage = "sig"
    BY <1>5 DEF CheckSig, JwtInv
  <2> DEFINE cap == IF fn = "ES256" THEN 2 * Half ELSE SigCap
             d == Base64(Parts.sig, cap)
  <2>1. \/ stage' = "said" /\ sig' = sig
        \/ /\ d.ok /\ (fn = "ES256" => Len(d.bytes) = 2 * Half)
           /\ stage' = "key" /\ sig' = IF fn = "ES256" THEN Der(d.bytes) ELSE d.bytes
    BY <1>5, Zenon DEF CheckSig, Say
  <2>2. jwt' = jwt /\ fn' = fn /\ sig = <<>>
    BY <1>5 DEF CheckSig, SigInv
  <2>3. CASE stage' = "said" /\ sig' = sig
    BY <2>2, <2>3 DEF SigInv
  <2>4. CASE /\ d.ok /\ (fn = "ES256" => Len(d.bytes) = 2 * Half)
             /\ stage' = "key" /\ sig' = IF fn = "ES256" THEN Der(d.bytes) ELSE d.bytes
    <3>1. Parts.sig = jwt.sig /\ jwt.sig \in Seq(Int)
      BY <2>0, Zenon DEF Described, Parts
    <3>2. cap \in Nat
      BY JwtAssumption
    <3> HIDE DEF cap
    <3>3. d.bytes = Decoded64(jwt.sig) /\ Decoded64(jwt.sig) \in Seq(0 .. 255)
      BY <2>4, <3>1, <3>2, Base64Bytes
    <3> DEFINE raw == Decoded64(jwt.sig)
    <3> HIDE DEF d, raw
    <3>4. d.bytes = raw /\ raw \in Seq(0 .. 255)
      BY <3>3 DEF raw
    <3>5. CASE fn = "ES256"
      <4>1. sig' = Der(raw) /\ Len(raw) = 2 * Half
        BY <2>4, <3>4, <3>5
      <4>2. Faithful(sig', raw, "ES256")
        BY <3>4, <4>1, DerFaithful, Zenon
      <4> QED
        BY <2>2, <2>4, <3>5, <4>2, Zenon DEF SigInv, raw
    <3>6. CASE fn = "RS256"
      <4>1. sig' = raw
        BY <2>4, <3>4, <3>6
      <4>2. Faithful(sig', raw, "RS256")
        BY <4>1, Zenon DEF Faithful
      <4> QED
        BY <2>2, <2>4, <3>6, <4>2, Zenon DEF SigInv, raw
    <3> QED
      BY <2>0, <3>5, <3>6 DEF Function
  <2> HIDE DEF d
  <2> QED
    BY <2>1, <2>3, <2>4
<1>6. CASE ParseKey
  BY <1>6 DEF ParseKey, Say, SigInv
<1>7. CASE Verify
  BY <1>7 DEF Verify, Say, SigInv
<1>8. CASE JwtReturn
  BY <1>8 DEF JwtReturn, SigInv
<1>9. CASE UNCHANGED jwtVars
  BY <1>9 DEF jwtVars, SigInv
<1> QED
  BY <1>1, <1>2, <1>3, <1>4, <1>5, <1>6, <1>7, <1>8, <1>9 DEF JwtNext

(* The signature given to mbedTLS is the bits of the token's text, all of  *)
(* them and no other, and of an ES256 signature the two halves as          *)
(* non-negative integers (dsp_jwt_base64url_decode, rs_to_der), for halves *)
(* and buffers of any size and tokens that are what they are described to  *)
(* be.                                                                     *)
THEOREM SignatureAlwaysTrue ==
  Described => (JwtSpec => []SignatureTrue)
<1> SUFFICES ASSUME Described PROVE JwtSpec => []SignatureTrue
  OBVIOUS
<1>1. JwtInit => JwtInv /\ SigInv
  BY DEF JwtInit, JwtInv, SigInv, Stage
<1>2. JwtInv /\ SigInv /\ [JwtNext]_jwtVars => (JwtInv /\ SigInv)'
  BY JwtStep, SigStep
<1>3. SigInv => SignatureTrue
  BY FaithfulIs DEF SigInv
<1> QED
  BY <1>1, <1>2, <1>3, PTL DEF JwtSpec

-----------------------------------------------------------------------------
(* The builders: what the steps of each do, without the text they write.   *)
Kinds == {"catalog", "agreement", "event", "start", "completion", "error"}
TwoLocals == {"catalog", "agreement", "start"}

IsNew(s) == s = <<"new", "root">>
IsSub(s) == s = <<"new", "sub">>
IsList(s) == s = <<"array">>
Attaches(s) == \E k : s = <<"attach", k>>
Writes(s, o) == \E k, v : s = <<o, k, v>>

Stamped(s) == \E a, b, c, d : s = << <<"root", a, b>>, <<"root", c, d>> >>

LEMMA StampWrites == ASSUME NEW type PROVE Stamped(Stamp(type))
  BY Zenon DEF Stamped, Stamp

LEMMA ThreeParts ==
    ASSUME NEW S, NEW a \in Seq(S), NEW t \in Seq(S), NEW b \in Seq(S)
    PROVE  /\ a \o t \o b \in Seq(S)
           /\ Len(a \o t \o b) = Len(a) + Len(t) + Len(b)
           /\ \A n \in 1 .. Len(a) : (a \o t \o b)[n] = a[n]
           /\ \A n \in 1 .. Len(t) : (a \o t \o b)[Len(a) + n] = t[n]
           /\ \A n \in 1 .. Len(b) : (a \o t \o b)[Len(a) + Len(t) + n] = b[n]
<1> DEFINE c == a \o t
<1>1. Len(a) \in Nat /\ Len(t) \in Nat /\ Len(b) \in Nat
  BY LenProperties
<1>2. c \in Seq(S) /\ Len(c) = Len(a) + Len(t)
      /\ \A i \in 1 .. Len(a) + Len(t) : c[i] = IF i <= Len(a) THEN a[i] ELSE t[i - Len(a)]
  BY ConcatProperties
<1> HIDE DEF c
<1>a. c \in Seq(S)
  BY <1>2
<1>3. c \o b \in Seq(S) /\ Len(c \o b) = Len(c) + Len(b)
      /\ \A i \in 1 .. Len(c) + Len(b) : (c \o b)[i] = IF i <= Len(c) THEN c[i] ELSE b[i - Len(c)]
  BY ONLY b \in Seq(S), <1>a, ConcatProperties
<1>4. Len(c \o b) = Len(a) + Len(t) + Len(b)
  BY <1>1, <1>2, <1>3
<1>5. \A n \in 1 .. Len(a) : (c \o b)[n] = a[n]
  BY <1>1, <1>2, <1>3
<1>6. ASSUME NEW n \in 1 .. Len(t) PROVE (c \o b)[Len(a) + n] = t[n]
  <2>1. Len(a) + n \in 1 .. Len(a) + Len(t) /\ ~(Len(a) + n <= Len(a)) /\ (Len(a) + n) - Len(a) = n
        /\ Len(a) + n <= Len(c) /\ Len(a) + n \in 1 .. Len(c) + Len(b)
    BY <1>1, <1>2
  <2> QED
    BY <1>2, <1>3, <2>1
<1>7. ASSUME NEW n \in 1 .. Len(b) PROVE (c \o b)[Len(a) + Len(t) + n] = b[n]
  <2>1. Len(c) + n \in 1 .. Len(c) + Len(b) /\ ~(Len(c) + n <= Len(c)) /\ (Len(c) + n) - Len(c) = n
    BY <1>1, <1>2
  <2>2. (c \o b)[Len(c) + n] = b[n]
    BY <1>3, <2>1
  <2> QED
    BY <1>2, <2>2
<1> QED
  BY <1>3, <1>4, <1>5, <1>6, <1>7 DEF c

(* The second local of a builder is there from step 3 on, until it is      *)
(* attached in the last.                                                   *)
Holding(p, n) == p.kind \in TwoLocals /\ n \in 3 .. Len(Steps(p))

Shaped(p) ==
    /\ Len(Steps(p)) \in Nat /\ Len(Steps(p)) >= 4
    /\ IsNew(Steps(p)[1])
    /\ \A n \in 2 .. Len(Steps(p)) :
          LET s == Steps(p)[n] IN
          IF p.kind \notin TwoLocals THEN Writes(s, "root")
          ELSE IF n = 2 THEN IsSub(s)
          ELSE IF n = Len(Steps(p)) THEN Attaches(s)
          ELSE IsList(s) \/ Writes(s, "root") \/ Writes(s, "sub")

(* All the builder's own items come first, then the stamp, then the rest.  *)
LEMMA TwoShaped ==
    ASSUME NEW p, p.kind \in TwoLocals, NEW S, NEW a \in Seq(S), NEW t \in Seq(S), NEW b \in Seq(S),
           Steps(p) = a \o t \o b, Len(a) \in 3 .. 5, IsNew(a[1]), IsSub(a[2]),
           \A i \in 3 .. Len(a) : IsList(a[i]) \/ Writes(a[i], "sub"),
           Len(t) = 2, Writes(t[1], "root"), Writes(t[2], "root"),
           Len(b) = 2, Writes(b[1], "root"), Attaches(b[2])
    PROVE  Shaped(p)
<1> DEFINE s == a \o t \o b
           k == Len(a)
<1>1. /\ Len(s) = k + 4 /\ k \in 3 .. 5
      /\ \A n \in 1 .. k : s[n] = a[n]
      /\ \A n \in 1 .. 2 : s[k + n] = t[n]
      /\ \A n \in 1 .. 2 : s[k + 2 + n] = b[n]
  <2>1. /\ Len(s) = k + 2 + 2
        /\ \A n \in 1 .. k : s[n] = a[n]
        /\ \A n \in 1 .. 2 : s[k + n] = t[n]
        /\ \A n \in 1 .. 2 : s[k + 2 + n] = b[n]
    <3>1. /\ Len(s) = Len(a) + Len(t) + Len(b)
          /\ \A n \in 1 .. Len(a) : s[n] = a[n]
          /\ \A n \in 1 .. Len(t) : s[Len(a) + n] = t[n]
          /\ \A n \in 1 .. Len(b) : s[Len(a) + Len(t) + n] = b[n]
      BY ONLY a \in Seq(S), t \in Seq(S), b \in Seq(S), ThreeParts
    <3> HIDE DEF s
    <3> QED
      BY <3>1
  <2> QED
    BY <2>1
<1> HIDE DEF s, k
<1>2. s[k + 1] = t[1] /\ s[k + 2] = t[2] /\ s[k + 3] = b[1] /\ s[k + 4] = b[2]
  BY <1>1
<1>3. \A n \in 1 .. Len(s) : n \in 1 .. k \/ n \in {k + 1, k + 2, k + 3} \/ n = Len(s)
  <2>1. Len(s) = k + 4 /\ k \in 3 .. 5
    BY <1>1
  <2>2. \A n \in 1 .. k + 4 : n \in 1 .. k \/ n = k + 1 \/ n = k + 2 \/ n = k + 3 \/ n = k + 4
    BY ONLY <2>1
  <2> QED
    BY <2>1, <2>2
<1>4. ASSUME NEW n \in 2 .. Len(s)
      PROVE  IF n = 2 THEN IsSub(s[n]) ELSE IF n = Len(s) THEN Attaches(s[n])
             ELSE IsList(s[n]) \/ Writes(s[n], "root") \/ Writes(s[n], "sub")
  <2>1. CASE n \in 1 .. k
    <3>1. s[n] = a[n] /\ n # Len(s) /\ (n # 2 => n \in 3 .. k)
      BY <1>1, <2>1
    <3> QED
      BY <3>1 DEF k
  <2>2. CASE n \in {k + 1, k + 2, k + 3}
    <3>1. n # 2 /\ n # Len(s)
      BY <1>1, <2>2, SMTT(30)
    <3> QED
      BY <1>2, <2>2, <3>1
  <2>3. CASE n = Len(s)
    <3>1. n # 2 /\ n = k + 4
      BY <1>1, <2>3
    <3> QED
      BY <1>2, <2>3, <3>1
  <2> QED
    BY <1>1, <1>3, <2>1, <2>2, <2>3
<1>5. Len(s) \in Nat /\ Len(s) >= 4 /\ s[1] = a[1]
  BY <1>1
<1> QED
  BY <1>4, <1>5 DEF Shaped, s

LEMMA OneShaped ==
    ASSUME NEW p, p.kind \notin TwoLocals, NEW S, NEW a \in Seq(S), NEW t \in Seq(S), NEW b \in Seq(S),
           Steps(p) = a \o t \o b, Len(a) = 1, IsNew(a[1]),
           Len(t) = 2, Writes(t[1], "root"), Writes(t[2], "root"),
           Len(b) \in 1 .. 2, \A i \in 1 .. Len(b) : Writes(b[i], "root")
    PROVE  Shaped(p)
<1> DEFINE s == a \o t \o b
           k == Len(b)
<1>1. /\ Len(s) = 3 + k /\ k \in 1 .. 2
      /\ \A n \in 1 .. 1 : s[n] = a[n]
      /\ \A n \in 1 .. 2 : s[1 + n] = t[n]
      /\ \A n \in 1 .. k : s[1 + 2 + n] = b[n]
  <2>1. /\ Len(s) = 1 + 2 + k
        /\ \A n \in 1 .. 1 : s[n] = a[n]
        /\ \A n \in 1 .. 2 : s[1 + n] = t[n]
        /\ \A n \in 1 .. k : s[1 + 2 + n] = b[n]
    <3>1. /\ Len(s) = Len(a) + Len(t) + Len(b)
          /\ \A n \in 1 .. Len(a) : s[n] = a[n]
          /\ \A n \in 1 .. Len(t) : s[Len(a) + n] = t[n]
          /\ \A n \in 1 .. Len(b) : s[Len(a) + Len(t) + n] = b[n]
      BY ONLY a \in Seq(S), t \in Seq(S), b \in Seq(S), ThreeParts
    <3> HIDE DEF s
    <3> QED
      BY <3>1
  <2> QED
    BY <2>1
<1> HIDE DEF s, k
<1>2. s[1] = a[1] /\ s[2] = t[1] /\ s[3] = t[2] /\ s[4] = b[1] /\ (k = 2 => s[5] = b[2])
  BY <1>1
<1>3. \A n \in 2 .. Len(s) : n \in {2, 3, 4} \/ (n = 5 /\ k = 2)
  BY <1>1
<1>4. Writes(b[1], "root") /\ (k = 2 => Writes(b[2], "root"))
  BY <1>1 DEF k
<1>5. \A n \in 2 .. Len(s) : Writes(s[n], "root")
  BY <1>2, <1>3, <1>4
<1>6. Len(s) \in Nat /\ Len(s) >= 4
  BY <1>1
<1> QED
  BY <1>2, <1>5, <1>6 DEF Shaped, s

LEMMA StepsShaped == ASSUME NEW p, p.kind \in Kinds PROVE Shaped(p)
<1>1. ASSUME NEW t, Stamped(t)
      PROVE  Len(t) = 2 /\ Writes(t[1], "root") /\ Writes(t[2], "root") /\ t \in Seq({t[1], t[2]})
  <2>1. PICK a, b, c, d : t = << <<"root", a, b>>, <<"root", c, d>> >>
    BY <1>1 DEF Stamped
  <2>2. Len(t) = 2 /\ t[1] = <<"root", a, b>> /\ t[2] = <<"root", c, d>>
    BY <2>1
  <2>3. t \in Seq({t[1], t[2]})
    BY <2>1, <2>2
  <2> QED
    BY <2>2, <2>3 DEF Writes
<1>2. CASE p.kind = "catalog"
  <2>1. PICK a, b, c, d, m, n, k, t :
           Stamped(t) /\ Steps(p) = << <<"new", "root">>, <<"new", "sub">>, <<"sub", a, b>>, <<"sub", c, d>>, <<"array">> >>
                                    \o t \o << <<"root", m, n>>, <<"attach", k>> >>
    BY <1>2, StampWrites, Zenon DEF Steps
  <2> DEFINE u == << <<"new", "root">>, <<"new", "sub">>, <<"sub", a, b>>, <<"sub", c, d>>, <<"array">> >>
             v == << <<"root", m, n>>, <<"attach", k>> >>
             S == {u[1], u[2], u[3], u[4], u[5], t[1], t[2], v[1], v[2]}
  <2>2. Len(u) = 5 /\ IsNew(u[1]) /\ IsSub(u[2]) /\ Writes(u[3], "sub") /\ Writes(u[4], "sub") /\ IsList(u[5])
    BY DEF IsNew, IsSub, Writes, IsList
  <2>3. Len(v) = 2 /\ Writes(v[1], "root") /\ Attaches(v[2])
    BY DEF Writes, Attaches
  <2>4. u \in Seq(S) /\ v \in Seq(S)
    OBVIOUS
  <2>5. t \in Seq(S)
    <3>1. {t[1], t[2]} \subseteq S
      OBVIOUS
    <3> HIDE DEF S
    <3> QED
      BY <1>1, <2>1, <3>1, SeqMonotonic
  <2> HIDE DEF u, v, S
  <2>6. \A i \in 3 .. 5 : i = 3 \/ i = 4 \/ i = 5
    OBVIOUS
  <2>7. \A i \in 3 .. Len(u) : IsList(u[i]) \/ Writes(u[i], "sub")
    BY <2>2, <2>6
  <2>8. Steps(p) = u \o t \o v /\ p.kind \in TwoLocals /\ Len(u) \in 3 .. 5
    BY <1>2, <2>1, <2>2 DEF u, v, TwoLocals
  <2>9. Len(t) = 2 /\ Writes(t[1], "root") /\ Writes(t[2], "root")
    BY <1>1, <2>1
  <2> QED
    BY <2>2, <2>3, <2>4, <2>5, <2>7, <2>8, <2>9, TwoShaped
<1>3. CASE p.kind = "agreement"
  <2>1. PICK a, b, c, d, m, n, k, t :
           Stamped(t) /\ Steps(p) = << <<"new", "root">>, <<"new", "sub">>, <<"sub", a, b>>, <<"sub", c, d>> >>
                                    \o t \o << <<"root", m, n>>, <<"attach", k>> >>
    BY <1>3, StampWrites, Zenon DEF Steps
  <2> DEFINE u == << <<"new", "root">>, <<"new", "sub">>, <<"sub", a, b>>, <<"sub", c, d>> >>
             v == << <<"root", m, n>>, <<"attach", k>> >>
             S == {u[1], u[2], u[3], u[4], t[1], t[2], v[1], v[2]}
  <2>2. Len(u) = 4 /\ IsNew(u[1]) /\ IsSub(u[2]) /\ Writes(u[3], "sub") /\ Writes(u[4], "sub")
    BY DEF IsNew, IsSub, Writes, IsList
  <2>3. Len(v) = 2 /\ Writes(v[1], "root") /\ Attaches(v[2])
    BY DEF Writes, Attaches
  <2>4. u \in Seq(S) /\ v \in Seq(S)
    OBVIOUS
  <2>5. t \in Seq(S)
    <3>1. {t[1], t[2]} \subseteq S
      OBVIOUS
    <3> HIDE DEF S
    <3> QED
      BY <1>1, <2>1, <3>1, SeqMonotonic
  <2> HIDE DEF u, v, S
  <2>6. \A i \in 3 .. 4 : i = 3 \/ i = 4
    OBVIOUS
  <2>7. \A i \in 3 .. Len(u) : IsList(u[i]) \/ Writes(u[i], "sub")
    BY <2>2, <2>6
  <2>8. Steps(p) = u \o t \o v /\ p.kind \in TwoLocals /\ Len(u) \in 3 .. 5
    BY <1>3, <2>1, <2>2 DEF u, v, TwoLocals
  <2>9. Len(t) = 2 /\ Writes(t[1], "root") /\ Writes(t[2], "root")
    BY <1>1, <2>1
  <2> QED
    BY <2>2, <2>3, <2>4, <2>5, <2>7, <2>8, <2>9, TwoShaped
<1>4. CASE p.kind = "start"
  <2>1. PICK a, b, m, n, k, t :
           Stamped(t) /\ Steps(p) = << <<"new", "root">>, <<"new", "sub">>, <<"sub", a, b>> >>
                                    \o t \o << <<"root", m, n>>, <<"attach", k>> >>
    BY <1>4, StampWrites, Zenon DEF Steps
  <2> DEFINE u == << <<"new", "root">>, <<"new", "sub">>, <<"sub", a, b>> >>
             v == << <<"root", m, n>>, <<"attach", k>> >>
             S == {u[1], u[2], u[3], t[1], t[2], v[1], v[2]}
  <2>2. Len(u) = 3 /\ IsNew(u[1]) /\ IsSub(u[2]) /\ Writes(u[3], "sub")
    BY DEF IsNew, IsSub, Writes, IsList
  <2>3. Len(v) = 2 /\ Writes(v[1], "root") /\ Attaches(v[2])
    BY DEF Writes, Attaches
  <2>4. u \in Seq(S) /\ v \in Seq(S)
    OBVIOUS
  <2>5. t \in Seq(S)
    <3>1. {t[1], t[2]} \subseteq S
      OBVIOUS
    <3> HIDE DEF S
    <3> QED
      BY <1>1, <2>1, <3>1, SeqMonotonic
  <2> HIDE DEF u, v, S
  <2>6. \A i \in 3 .. 3 : i = 3
    OBVIOUS
  <2>7. \A i \in 3 .. Len(u) : IsList(u[i]) \/ Writes(u[i], "sub")
    BY <2>2, <2>6
  <2>8. Steps(p) = u \o t \o v /\ p.kind \in TwoLocals /\ Len(u) \in 3 .. 5
    BY <1>4, <2>1, <2>2 DEF u, v, TwoLocals
  <2>9. Len(t) = 2 /\ Writes(t[1], "root") /\ Writes(t[2], "root")
    BY <1>1, <2>1
  <2> QED
    BY <2>2, <2>3, <2>4, <2>5, <2>7, <2>8, <2>9, TwoShaped
<1>5. CASE p.kind = "event"
  <2>1. PICK a, b, c, d, t :
           Stamped(t) /\ Steps(p) = << <<"new", "root">> >>
                                    \o t \o << <<"root", a, b>>, <<"root", c, d>> >>
    BY <1>5, StampWrites, Zenon DEF Steps
  <2> DEFINE u == << <<"new", "root">> >>
             v == << <<"root", a, b>>, <<"root", c, d>> >>
             S == {u[1], t[1], t[2], v[1], v[2]}
  <2>2. Len(u) = 1 /\ IsNew(u[1])
    BY DEF IsNew, IsSub, Writes, IsList
  <2>3. Len(v) = 2 /\ Writes(v[1], "root") /\ Writes(v[2], "root")
    BY DEF Writes, Attaches
  <2>4. u \in Seq(S) /\ v \in Seq(S)
    OBVIOUS
  <2>5. t \in Seq(S)
    <3>1. {t[1], t[2]} \subseteq S
      OBVIOUS
    <3> HIDE DEF S
    <3> QED
      BY <1>1, <2>1, <3>1, SeqMonotonic
  <2> HIDE DEF u, v, S
  <2>6. \A i \in 1 .. 2 : i = 1 \/ i = 2
    OBVIOUS
  <2>7. Len(v) \in 1 .. 2 /\ \A i \in 1 .. Len(v) : Writes(v[i], "root")
    BY <2>3, <2>6
  <2>8. Steps(p) = u \o t \o v /\ p.kind \notin TwoLocals
    BY <1>5, <2>1 DEF u, v, TwoLocals
  <2>9. Len(t) = 2 /\ Writes(t[1], "root") /\ Writes(t[2], "root")
    BY <1>1, <2>1
  <2> QED
    BY <2>2, <2>4, <2>5, <2>7, <2>8, <2>9, OneShaped
<1>6. CASE p.kind = "completion"
  <2>1. PICK a, b, t :
           Stamped(t) /\ Steps(p) = << <<"new", "root">> >>
                                    \o t \o << <<"root", a, b>> >>
    BY <1>6, StampWrites, Zenon DEF Steps
  <2> DEFINE u == << <<"new", "root">> >>
             v == << <<"root", a, b>> >>
             S == {u[1], t[1], t[2], v[1]}
  <2>2. Len(u) = 1 /\ IsNew(u[1])
    BY DEF IsNew, IsSub, Writes, IsList
  <2>3. Len(v) = 1 /\ Writes(v[1], "root")
    BY DEF Writes, Attaches
  <2>4. u \in Seq(S) /\ v \in Seq(S)
    OBVIOUS
  <2>5. t \in Seq(S)
    <3>1. {t[1], t[2]} \subseteq S
      OBVIOUS
    <3> HIDE DEF S
    <3> QED
      BY <1>1, <2>1, <3>1, SeqMonotonic
  <2> HIDE DEF u, v, S
  <2>6. \A i \in 1 .. 1 : i = 1
    OBVIOUS
  <2>7. Len(v) \in 1 .. 2 /\ \A i \in 1 .. Len(v) : Writes(v[i], "root")
    BY <2>3, <2>6
  <2>8. Steps(p) = u \o t \o v /\ p.kind \notin TwoLocals
    BY <1>6, <2>1 DEF u, v, TwoLocals
  <2>9. Len(t) = 2 /\ Writes(t[1], "root") /\ Writes(t[2], "root")
    BY <1>1, <2>1
  <2> QED
    BY <2>2, <2>4, <2>5, <2>7, <2>8, <2>9, OneShaped
<1>7. CASE p.kind = "error"
  <2>1. PICK a, b, c, d, t :
           Stamped(t) /\ Steps(p) = << <<"new", "root">> >>
                                    \o t \o << <<"root", a, b>>, <<"root", c, d>> >>
    BY <1>7, StampWrites, Zenon DEF Steps
  <2> DEFINE u == << <<"new", "root">> >>
             v == << <<"root", a, b>>, <<"root", c, d>> >>
             S == {u[1], t[1], t[2], v[1], v[2]}
  <2>2. Len(u) = 1 /\ IsNew(u[1])
    BY DEF IsNew, IsSub, Writes, IsList
  <2>3. Len(v) = 2 /\ Writes(v[1], "root") /\ Writes(v[2], "root")
    BY DEF Writes, Attaches
  <2>4. u \in Seq(S) /\ v \in Seq(S)
    OBVIOUS
  <2>5. t \in Seq(S)
    <3>1. {t[1], t[2]} \subseteq S
      OBVIOUS
    <3> HIDE DEF S
    <3> QED
      BY <1>1, <2>1, <3>1, SeqMonotonic
  <2> HIDE DEF u, v, S
  <2>6. \A i \in 1 .. 2 : i = 1 \/ i = 2
    OBVIOUS
  <2>7. Len(v) \in 1 .. 2 /\ \A i \in 1 .. Len(v) : Writes(v[i], "root")
    BY <2>3, <2>6
  <2>8. Steps(p) = u \o t \o v /\ p.kind \notin TwoLocals
    BY <1>7, <2>1 DEF u, v, TwoLocals
  <2>9. Len(t) = 2 /\ Writes(t[1], "root") /\ Writes(t[2], "root")
    BY <1>1, <2>1
  <2> QED
    BY <2>2, <2>4, <2>5, <2>7, <2>8, <2>9, OneShaped
<1> QED
  BY <1>2, <1>3, <1>4, <1>5, <1>6, <1>7 DEF Kinds

-----------------------------------------------------------------------------
(* Parsing: at every moment the heap holds one tree that is being built,   *)
(* and nothing else.                                                       *)
Unready == {"value", "name", "colon", "first", "after", "fail"}
Bare == {"value", "name", "colon"}

Unfinished(h, st, r) == \E g, K : Pending(h, g, K, st, r)

(* The same, and the item whose value comes next is there and is bare.     *)
Awaiting(h, st, r) ==
    \E g, K : Pending(h, g, K, st, r) /\ Awaits(st, r) \in DOMAIN K /\ K[Awaits(st, r)] = <<>>

ParsePart ==
    /\ pc \in {"parse", "refused", "parsed"} \cup Unready
    /\ pc \in {"parse", "refused"} => heap = <<>> /\ root = Nil
    /\ pc = "parsed" => Owns(heap, {root}) /\ root \in DOMAIN heap
    /\ pc \in Unready => Unfinished(heap, stack, root)
    /\ pc \in Bare => Awaiting(heap, stack, root)
    /\ pc \in {"name", "colon", "first"} => Len(stack) # 0

LEMMA StackSeq == ASSUME pc \in Unready, ParsePart
                  PROVE  /\ stack \in Seq(Frame) /\ Len(stack) \in Nat
                         /\ stack = <<>> <=> Len(stack) = 0
                         /\ Len(stack) # 0 => Top = stack[Len(stack)] /\ Top \in Frame
                         /\ Target = Awaits(stack, root)
                         /\ Heap(heap) /\ root \in DOMAIN heap
<1>1. PICK g, K : Pending(heap, g, K, stack, root)
  BY DEF ParsePart, Unfinished
<1>2. stack \in Seq(Frame) /\ Heap(heap) /\ root \in DOMAIN K /\ DOMAIN K = DOMAIN heap
  BY <1>1 DEF Pending, Framed, Unclosed, Alike, InOrder, Rep
<1>3. Len(stack) \in Nat /\ (stack = <<>> <=> Len(stack) = 0)
  BY <1>2, LenProperties, EmptySeq
<1>4. Top = stack[Len(stack)]
  BY DEF Top, Last
<1>5. Len(stack) # 0 => Top \in Frame
  BY <1>2, <1>3, <1>4, ElementOfSeq
<1> QED
  BY <1>2, <1>3, <1>4, <1>5 DEF Target, Awaits

LEMMA FrontPopped == ASSUME NEW st \in Seq(Frame), Len(st) # 0 PROVE Popped(Front(st), st)
<1>1. Len(st) \in Nat
  BY LenProperties
<1>2. SubSeq(st, 1, Len(st) - 1) \in Seq(Frame)
  <2>1. \A i \in 1 .. Len(st) : st[i] \in Frame
    BY ElementOfSeq
  <2> QED
    BY <1>1, <2>1, SubSeqProperties
<1>3. Len(SubSeq(st, 1, Len(st) - 1)) = Len(st) - 1
      /\ \A i \in 1 .. Len(st) - 1 : SubSeq(st, 1, Len(st) - 1)[i] = st[i]
  <2>1. \A n \in 1 .. Len(st) : /\ Len(SubSeq(st, 1, n - 1)) = n - 1
                                /\ \A i \in 1 .. n - 1 : SubSeq(st, 1, n - 1)[i] = st[i]
    BY <1>1, SubSeqProperties
  <2>2. Len(st) \in 1 .. Len(st)
    BY <1>1
  <2> QED
    BY <2>1, <2>2
<1> QED
  BY <1>2, <1>3 DEF Front, Popped

(* What changes only names and values.                                     *)
SameShape(e, h) == Alike(e, h) /\ SameNext(e, h, DOMAIN h) /\ SamePrev(e, h, DOMAIN h) /\ SameChild(e, h, DOMAIN h)

LEMMA UnfinishedSame ==
    ASSUME NEW h, NEW st, NEW r, NEW e, SameShape(e, h)
    PROVE  /\ Unfinished(h, st, r) => Unfinished(e, st, r)
           /\ Awaiting(h, st, r) => Awaiting(e, st, r)
<1>1. \A g, K : Pending(h, g, K, st, r) => Pending(e, g, K, st, r)
  BY PendSame DEF SameShape
<1> QED
  BY <1>1 DEF Unfinished, Awaiting

LEMMA SameType == ASSUME NEW h, Heap(h), NEW i \in DOMAIN h, NEW v PROVE SameShape([h EXCEPT ![i].type = v], h)
  BY DEF Heap, Alike, SameNext, SamePrev, SameChild, SameShape
LEMMA SameName == ASSUME NEW h, Heap(h), NEW i \in DOMAIN h, NEW v PROVE SameShape([h EXCEPT ![i].name = v], h)
  BY DEF Heap, Alike, SameNext, SamePrev, SameChild, SameShape
LEMMA SameStr == ASSUME NEW h, Heap(h), NEW i \in DOMAIN h, NEW v PROVE SameShape([h EXCEPT ![i].str = v], h)
  BY DEF Heap, Alike, SameNext, SamePrev, SameChild, SameShape
LEMMA SameBoth == ASSUME NEW h, Heap(h), NEW i \in DOMAIN h, NEW v, NEW w
                  PROVE  SameShape([h EXCEPT ![i].type = v, ![i].str = w], h)
<1> DEFINE t == [h EXCEPT ![i].type = v]
<1>1. SameShape(t, h)
  BY SameType
<1>2. [h EXCEPT ![i].type = v, ![i].str = w] = [t EXCEPT ![i].str = w]
  OBVIOUS
<1> HIDE DEF t
<1>3. Heap(t) /\ i \in DOMAIN t /\ DOMAIN t = DOMAIN h
  BY <1>1 DEF SameShape, Alike
<1>4. SameShape([t EXCEPT ![i].str = w], t)
  BY <1>3, SameStr
<1>5. SameShape([t EXCEPT ![i].str = w], h)
  BY <1>1, <1>3, <1>4 DEF SameShape, Alike, SameNext, SamePrev, SameChild
<1> QED
  BY <1>2, <1>5

LEMMA StartKeeps == ParsePart /\ ParseStart => ParsePart'
<1> SUFFICES ASSUME ParsePart, ParseStart PROVE ParsePart'
  OBVIOUS
<1>1. pc = "parse" /\ heap = <<>> /\ root = Nil /\ stack' = <<>>
  BY DEF ParsePart, ParseStart
<1>2. CASE ~Full(heap) /\ heap' = WithItem(heap, "invalid") /\ root' = Fresh(heap) /\ pc' = "value"
  <2>1. \E g, K : /\ Pending(heap', g, K, <<>>, root') /\ root' \in DOMAIN K /\ K[root'] = <<>>
    BY <1>1, <1>2, PendStart
  <2>2. Awaits(<<>>, root') = root'
    BY DEF Awaits
  <2>3. Unfinished(heap', stack', root') /\ Awaiting(heap', stack', root')
    BY <1>1, <2>1, <2>2 DEF Unfinished, Awaiting
  <2> QED
    BY <1>2, <2>3 DEF ParsePart, Unready, Bare
<1>3. CASE pc' = "refused" /\ UNCHANGED <<heap, root>>
  BY <1>1, <1>3 DEF ParsePart, Unready, Bare
<1> QED
  BY <1>2, <1>3 DEF ParseStart, Goto, Starve

(* A step that only changes where the parser goes on.                      *)
LEMMA FailKeeps == ASSUME ParsePart, pc \in Unready, pc' = "fail", heap' = heap, root' = root, stack' = stack
                   PROVE  ParsePart'
  BY DEF ParsePart, Unready, Bare

LEMMA TargetThere == ASSUME ParsePart, pc \in Bare
                     PROVE  /\ Awaiting(heap, stack, root) /\ Heap(heap) /\ Target \in DOMAIN heap /\ pc \in Unready
                            /\ Target = Awaits(stack, root)
<1>1. pc \in Unready
  BY DEF Bare, Unready
<1>2. PICK g, K : Pending(heap, g, K, stack, root) /\ Awaits(stack, root) \in DOMAIN K
  BY DEF Awaiting, ParsePart
<1>3. DOMAIN K = DOMAIN heap
  BY <1>2 DEF Pending, InOrder, Rep, Unclosed, Alike
<1> QED
  BY <1>1, <1>2, <1>3, StackSeq DEF ParsePart

LEMMA LeafKeeps == ParsePart /\ ParseLeaf => ParsePart'
<1> SUFFICES ASSUME ParsePart, ParseLeaf PROVE ParsePart'
  OBVIOUS
<1>1. pc \in Bare /\ stack' = stack /\ root' = root
  BY DEF ParseLeaf, Bare
<1>2. Unfinished(heap, stack, root) /\ Heap(heap) /\ Target \in DOMAIN heap /\ pc \in Unready
  BY <1>1, TargetThere DEF ParsePart
<1>3. CASE pc' = "fail" /\ heap' = heap
  BY <1>1, <1>2, <1>3, FailKeeps
<1>4. CASE pc' = "after" /\ (heap' = [heap EXCEPT ![Target].type = "lit"]
                             \/ heap' = [heap EXCEPT ![Target].type = "string", ![Target].str = Token])
  <2>1. SameShape(heap', heap)
    <3>1. SameShape([heap EXCEPT ![Target].type = "lit"], heap)
      BY <1>2, SameType
    <3>2. SameShape([heap EXCEPT ![Target].type = "string", ![Target].str = Token], heap)
      BY <1>2, SameBoth
    <3> QED
      BY <1>4, <3>1, <3>2
  <2>2. Unfinished(heap', stack, root)
    BY <1>2, <2>1, UnfinishedSame
  <2> QED
    BY <1>1, <1>4, <2>2 DEF ParsePart, Unready, Bare
<1> QED
  BY <1>3, <1>4, Zenon DEF ParseLeaf, Goto, Starve

LEMMA OpenKeeps == ParsePart /\ ParseOpen => ParsePart'
<1> SUFFICES ASSUME ParsePart, ParseOpen PROVE ParsePart'
  OBVIOUS
<1>0. /\ pc = "value" /\ Token \in Opening /\ heap' = heap /\ root' = root
      /\ \/ pc' = "fail" /\ stack' = stack
         \/ /\ stack' = Append(stack, [item |-> Target, open |-> Token, head |-> Nil, cur |-> Nil])
            /\ pc' = "first"
  BY Zenon DEF ParseOpen, Goto, Opening
<1>1. pc \in Unready /\ pc \in Bare
  BY <1>0 DEF Unready, Bare
<1>2. PICK g, K : Pending(heap, g, K, stack, root) /\ Awaits(stack, root) \in DOMAIN K /\ K[Awaits(stack, root)] = <<>>
  BY <1>1 DEF ParsePart, Awaiting
<1>3. CASE pc' = "fail" /\ stack' = stack
  BY <1>0, <1>1, <1>3, FailKeeps
<1>4. CASE /\ stack' = Append(stack, [item |-> Target, open |-> Token, head |-> Nil, cur |-> Nil])
           /\ pc' = "first"
  <2> DEFINE f == [item |-> Target, open |-> Token, head |-> Nil, cur |-> Nil]
  <2>1. Target = Awaits(stack, root) /\ stack \in Seq(Frame) /\ Len(stack) \in Nat
    BY <1>1, StackSeq
  <2>2. Pending(heap, g, K, Append(stack, f), root)
    BY <1>0, <1>2, <2>1, PendOpen
  <2>3. Unfinished(heap', stack', root')
    BY <1>0, <1>4, <2>2 DEF Unfinished
  <2>4. Len(stack') # 0
    BY <1>4, <2>1
  <2> QED
    BY <1>4, <2>3, <2>4 DEF ParsePart, Unready, Bare
<1> QED
  BY <1>0, <1>3, <1>4

(* The end of a list.                                                      *)
Closing(h, f, type) ==
    LET tailed == IF f.head = Nil THEN h ELSE [h EXCEPT ![f.head].prev = f.cur]
    IN [tailed EXCEPT ![f.item].type = type, ![f.item].child = f.head]

LEMMA CloseShape == ASSUME NEW h, NEW f PROVE \E type : CloseList(h, f) = Closing(h, f, type)
  BY Zenon DEF CloseList, Closing

LEMMA CloseFields ==
    ASSUME NEW h, Heap(h), NEW f, f.item \in DOMAIN h, f.head \in DOMAIN h \cup {Nil}, f.cur \in DOMAIN h \cup {Nil},
           NEW type, NEW e, e = Closing(h, f, type)
    PROVE  /\ Alike(e, h) /\ SameNext(e, h, DOMAIN h)
           /\ e[f.item].child = f.head /\ SameChild(e, h, DOMAIN h \ {f.item})
           /\ f.head # Nil => e[f.head].prev = f.cur
           /\ SamePrev(e, h, DOMAIN h \ {f.head})
<1> DEFINE t == IF f.head = Nil THEN h ELSE [h EXCEPT ![f.head].prev = f.cur]
<1>0. Nil \notin DOMAIN h
  BY DEF Heap, Item, Nil
<1>1. /\ Alike(t, h) /\ SameNext(t, h, DOMAIN h) /\ SameChild(t, h, DOMAIN h)
      /\ f.head # Nil => t[f.head].prev = f.cur
      /\ SamePrev(t, h, DOMAIN h \ {f.head})
  <2>1. CASE f.head = Nil
    BY <2>1 DEF Alike, SameNext, SamePrev, SameChild
  <2>2. CASE f.head # Nil
    <3>1. PrevSet([h EXCEPT ![f.head].prev = f.cur], h, f.head, f.cur)
      BY <2>2, SetPrev
    <3> QED
      BY <2>2, <3>1 DEF PrevSet
  <2> QED
    BY <2>1, <2>2
<1>2. e = [t EXCEPT ![f.item].type = type, ![f.item].child = f.head]
  BY DEF Closing
<1> HIDE DEF t
<1>3. Heap(t) /\ DOMAIN t = DOMAIN h
  BY <1>1 DEF Alike
<1> DEFINE u == [t EXCEPT ![f.item].type = type]
<1>4. SameShape(u, t)
  BY <1>3, SameType
<1>5. e = [u EXCEPT ![f.item].child = f.head]
  BY <1>2
<1> HIDE DEF u
<1>6. Heap(u) /\ DOMAIN u = DOMAIN h
  BY <1>3, <1>4 DEF SameShape, Alike
<1>7. ChildSet(e, u, f.item, f.head)
  <2>1. ChildSet([u EXCEPT ![f.item].child = f.head], u, f.item, f.head)
    BY <1>6, SetChild
  <2> QED
    BY <1>5, <2>1
<1> QED
  BY <1>0, <1>1, <1>3, <1>4, <1>6, <1>7 DEF SameShape, ChildSet, Alike, SameNext, SamePrev, SameChild

LEMMA CloseLinks == ASSUME ParsePart, ParseClose, NEW g, NEW K, Pending(heap, g, K, stack, root)
                    PROVE  /\ Len(stack) # 0 /\ Top = stack[Len(stack)] /\ Heap(heap) /\ Popped(stack', stack)
                           /\ Top.item \in DOMAIN heap /\ {Top.head, Top.cur} \subseteq DOMAIN heap \cup {Nil}
                           /\ Pending(heap', g, K, stack', root)
<1>0. /\ pc \in {"first", "after"} /\ stack # <<>> /\ heap' = CloseList(heap, Top)
      /\ stack' = Front(stack) /\ pc' = "after" /\ root' = root
  BY DEF ParseClose, Goto
<1>1. pc \in Unready
  BY <1>0 DEF Unready
<1>2. Pending(heap, g, K, stack, root)
  OBVIOUS
<1>3. /\ stack \in Seq(Frame) /\ Len(stack) # 0 /\ Top = stack[Len(stack)] /\ Heap(heap) /\ Len(stack) \in Nat
      /\ Len(stack) \in 1 .. Len(stack)
  <2>1. stack \in Seq(Frame) /\ Len(stack) # 0 /\ Top = stack[Len(stack)] /\ Heap(heap) /\ Len(stack) \in Nat
    BY <1>0, <1>1, StackSeq
  <2> QED
    BY <2>1
<1>4. Popped(stack', stack)
  BY <1>0, <1>3, FrontPopped
<1>5. Top.item \in DOMAIN heap /\ Top.head \in DOMAIN heap \cup {Nil} /\ Top.cur \in DOMAIN heap \cup {Nil}
  <2>1. InOrder(g, K) /\ Framed(K, stack, root) /\ DOMAIN K = DOMAIN heap
    BY <1>2 DEF Pending, InOrder, Rep, Unclosed, Alike
  <2>2. Top.item \in DOMAIN K /\ Top.head = FirstOf(K[Top.item]) /\ Top.cur = LastOf(K[Top.item])
    BY <1>3, <2>1 DEF Framed
  <2> QED
    BY <2>1, <2>2, Ends
<1>6. PICK type : heap' = Closing(heap, Top, type)
  BY <1>0, CloseShape
<1>7. /\ Alike(heap', heap) /\ SameNext(heap', heap, DOMAIN heap)
      /\ heap'[Top.item].child = Top.head /\ SameChild(heap', heap, DOMAIN heap \ {Top.item})
      /\ Top.head # Nil => heap'[Top.head].prev = Top.cur
      /\ SamePrev(heap', heap, DOMAIN heap \ {Top.head})
  <2> DEFINE f == Top
             e == heap'
  <2>1. /\ Heap(heap) /\ f.item \in DOMAIN heap /\ f.head \in DOMAIN heap \cup {Nil}
        /\ f.cur \in DOMAIN heap \cup {Nil} /\ e = Closing(heap, f, type)
    BY <1>3, <1>5, <1>6
  <2> HIDE DEF f, e
  <2>2. /\ Alike(e, heap) /\ SameNext(e, heap, DOMAIN heap)
        /\ e[f.item].child = f.head /\ SameChild(e, heap, DOMAIN heap \ {f.item})
        /\ f.head # Nil => e[f.head].prev = f.cur
        /\ SamePrev(e, heap, DOMAIN heap \ {f.head})
    BY <2>1, CloseFields
  <2> QED
    BY <2>2 DEF f, e
<1>8. Pending(heap', g, K, stack', root)
  BY <1>2, <1>3, <1>4, <1>7, PendClose
<1> QED
  BY <1>3, <1>4, <1>5, <1>8

LEMMA CloseKeeps == ParsePart /\ ParseClose => ParsePart'
<1> SUFFICES ASSUME ParsePart, ParseClose PROVE ParsePart'
  OBVIOUS
<1>0. pc \in {"first", "after"} /\ pc' = "after" /\ root' = root
  BY DEF ParseClose, Goto
<1>1. pc \in Unready
  BY <1>0 DEF Unready
<1>2. PICK g, K : Pending(heap, g, K, stack, root)
  BY <1>1 DEF ParsePart, Unfinished
<1>3. Pending(heap', g, K, stack', root)
  BY <1>2, CloseLinks
<1>4. Unfinished(heap', stack', root')
  BY <1>0, <1>3 DEF Unfinished
<1> QED
  BY <1>0, <1>4 DEF ParsePart, Unready, Bare

(* The links the parser makes for a new element, and its frame.            *)
LEMMA ElementLinks ==
    ASSUME NEW b, Heap(b), NEW c \in DOMAIN b, NEW f \in DOMAIN b,
           NEW e, e = [b EXCEPT ![c].next = f, ![f].prev = c]
    PROVE  Chained(e, b, c, f)
<1> DEFINE x == [b EXCEPT ![c].next = f]
<1>1. NextSet(x, b, c, f)
  BY SetNext
<1>2. e = [x EXCEPT ![f].prev = c]
  OBVIOUS
<1> HIDE DEF x
<1>3. Heap(x) /\ DOMAIN x = DOMAIN b
  BY <1>1 DEF NextSet, Alike
<1>4. PrevSet([x EXCEPT ![f].prev = c], x, f, c)
  BY <1>3, SetPrev
<1>5. PrevSet(e, x, f, c)
  BY <1>2, <1>4
<1> QED
  BY <1>1, <1>3, <1>5 DEF Chained, NextSet, PrevSet, Alike, SameNext, SamePrev, SameChild

(* A frame that got an element.                                            *)
Moved(r, f) == [r EXCEPT !.cur = f, !.head = IF @ = Nil THEN f ELSE @]

LEMMA FrameMoved ==
    ASSUME NEW a, NEW b, NEW c, NEW d, NEW f
    PROVE  Moved([item |-> a, open |-> b, head |-> c, cur |-> d], f)
           = [item |-> a, open |-> b, head |-> IF c = Nil THEN f ELSE c, cur |-> f]
<1> DEFINE r == [item |-> a, open |-> b, head |-> c, cur |-> d]
           q == [item |-> a, open |-> b, head |-> c, cur |-> f]
<1>1. [r EXCEPT !.cur = f] = q
  OBVIOUS
<1>2. [q EXCEPT !.head = IF q.head = Nil THEN f ELSE q.head]
      = [item |-> a, open |-> b, head |-> IF c = Nil THEN f ELSE c, cur |-> f]
  <2>1. CASE c = Nil
    BY <2>1
  <2>2. CASE c # Nil
    BY <2>2
  <2> QED
    BY <2>1, <2>2
<1>3. [r EXCEPT !.cur = f, !.head = IF @ = Nil THEN f ELSE @]
      = [[r EXCEPT !.cur = f] EXCEPT !.head = IF @ = Nil THEN f ELSE @]
  OBVIOUS
<1>4. [q EXCEPT !.head = IF @ = Nil THEN f ELSE @] = [q EXCEPT !.head = IF q.head = Nil THEN f ELSE q.head]
  OBVIOUS
<1> HIDE DEF q
<1>5. [r EXCEPT !.cur = f, !.head = IF @ = Nil THEN f ELSE @]
      = [q EXCEPT !.head = IF @ = Nil THEN f ELSE @]
  BY <1>1, <1>3
<1> QED
  BY <1>2, <1>4, <1>5 DEF Moved

LEMMA ElementFrame ==
    ASSUME NEW h, NEW st \in Seq(Frame), Len(st) # 0, NEW f \in Item,
           NEW t, t = [st EXCEPT ![Len(st)].cur = f, ![Len(st)].head = IF @ = Nil THEN f ELSE @]
    PROVE  Extended(h, st, t, f)
<1> DEFINE n == Len(st)
           old == st[n]
           new == [item |-> old.item, open |-> old.open,
                   head |-> IF old.head = Nil THEN f ELSE old.head, cur |-> f]
<1>1. n \in Nat /\ n \in 1 .. n /\ DOMAIN st = 1 .. n /\ \A k \in 1 .. n : st[k] \in Frame
  <2>1. n \in Nat /\ DOMAIN st = 1 .. n /\ \A k \in 1 .. n : st[k] \in Frame
    BY LenProperties, ElementOfSeq
  <2> QED
    BY <2>1
<1>2. old \in Frame /\ old = [item |-> old.item, open |-> old.open, head |-> old.head, cur |-> old.cur]
  BY <1>1 DEF Frame
<1>3. new \in Frame
  BY <1>2 DEF Frame, Link
<1>4. t = [st EXCEPT ![n] = new]
  <2>1. [old EXCEPT !.cur = f, !.head = IF @ = Nil THEN f ELSE @] = new
    <3>1. PICK a, b, c, d : old = [item |-> a, open |-> b, head |-> c, cur |-> d]
      BY <1>2
    <3>2. new = [item |-> a, open |-> b, head |-> IF c = Nil THEN f ELSE c, cur |-> f]
      BY <3>1
    <3> DEFINE r == [item |-> a, open |-> b, head |-> c, cur |-> d]
    <3>3. Moved(r, f) = [item |-> a, open |-> b, head |-> IF c = Nil THEN f ELSE c, cur |-> f]
      BY FrameMoved
    <3>4. old = r
      BY <3>1
    <3> HIDE DEF old, new, r
    <3>5. Moved(old, f) = new
      BY <3>2, <3>3, <3>4
    <3> QED
      BY <3>5 DEF Moved
  <2>2. t = [st EXCEPT ![n] = [old EXCEPT !.cur = f, !.head = IF @ = Nil THEN f ELSE @]]
    BY <1>1
  <2> QED
    BY <2>1, <2>2
<1> HIDE DEF new
<1>5. t \in Seq(Frame) /\ Len(t) = n /\ t[n] = new /\ \A k \in 1 .. n : k # n => t[k] = st[k]
  <2>1. DOMAIN t = 1 .. n /\ t = [k \in 1 .. n |-> IF k = n THEN new ELSE st[k]]
    BY <1>1, <1>4
  <2>2. \A k \in 1 .. n : (IF k = n THEN new ELSE st[k]) \in Frame
    BY <1>1, <1>3
  <2>3. t \in [1 .. n -> Frame]
    BY <2>1, <2>2
  <2>4. t \in Seq(Frame)
    <3> HIDE DEF n
    <3> QED
      BY <1>1, <2>3, SeqDef, ZenonT(30)
  <2>5. Len(t) = n
    BY <1>1, <2>1, <2>4, LenProperties
  <2> QED
    BY <1>1, <2>1, <2>4, <2>5
<1>6. new.item = old.item /\ new.open = old.open /\ new.cur = f /\ new.head = IF old.head = Nil THEN f ELSE old.head
  BY DEF new
<1>7. \A k \in 1 .. n - 1 : k \in 1 .. n /\ k # n
  BY <1>1
<1> QED
  BY <1>5, <1>6, <1>7 DEF Extended

LEMMA WithHeap == ASSUME NEW h, Heap(h), ~Full(h), NEW type
                  PROVE  LET b == WithItem(h, type)
                             f == Fresh(h) IN
                         /\ Heap(b) /\ DOMAIN b = DOMAIN h \cup {f} /\ f \notin DOMAIN h
                         /\ \A j \in DOMAIN h : b[j] = h[j]
                         /\ b[f].name = NoStr
<1> DEFINE b == WithItem(h, type)
           f == Fresh(h)
<1>1. f \in Item \ DOMAIN h
  BY FreshItem
<1>2. /\ DOMAIN b = DOMAIN h \cup {f} /\ \A j \in DOMAIN h : b[j] = h[j]
      /\ b[f] = [type |-> type, name |-> NoStr, str |-> NoStr, next |-> Nil, prev |-> Nil, child |-> Nil]
      /\ b = [j \in DOMAIN h \cup {f} |-> b[j]]
  BY <1>1 DEF WithItem, Fields
<1> HIDE DEF b, f
<1>3. \A j \in DOMAIN h \cup {f} : b[j] = [type |-> b[j].type, name |-> b[j].name, str |-> b[j].str,
                    next |-> b[j].next, prev |-> b[j].prev, child |-> b[j].child]
  BY <1>2 DEF Heap
<1>4. b = [j \in DOMAIN h \cup {f} |-> [type |-> b[j].type, name |-> b[j].name, str |-> b[j].str,
                    next |-> b[j].next, prev |-> b[j].prev, child |-> b[j].child]]
  BY <1>2, <1>3
<1>5. Heap(b)
  BY <1>1, <1>2, <1>4 DEF Heap
<1>6. b[f].name = NoStr
  BY <1>2
<1> QED
  BY <1>1, <1>2, <1>5, <1>6 DEF b, f

LEMMA ElementTree ==
    ASSUME ParsePart, ParseElement, pc' # "fail", NEW g, NEW K, Pending(heap, g, K, stack, root)
    PROVE  /\ Len(stack) # 0 /\ Top = stack[Len(stack)] /\ Heap(heap) /\ ~Full(heap)
           /\ Extended(heap, stack, stack', Fresh(heap))
           /\ LinksNew(heap', heap, "invalid", Top, Fresh(heap))
           /\ AwaitsBare(heap', stack', root, Fresh(heap), K, Top.item)
<1> DEFINE f == Fresh(heap)
           b == WithItem(heap, "invalid")
           t == [stack EXCEPT ![Len(stack)].cur = f, ![Len(stack)].head = IF @ = Nil THEN f ELSE @]
<1>0. /\ pc = "first" \/ (pc = "after" /\ stack # <<>>)
      /\ root' = root
      /\ \/ /\ ~Full(heap)
            /\ heap' = IF Top.head = Nil THEN b ELSE [b EXCEPT ![Top.cur].next = f, ![f].prev = Top.cur]
            /\ stack' = t
            /\ pc' \in {"value", "name"}
         \/ pc' = "fail" /\ heap' = heap /\ stack' = stack
  BY Zenon DEF ParseElement, Goto, Starve
<1>1. pc \in Unready
  BY <1>0 DEF Unready
<1>2. /\ stack \in Seq(Frame) /\ Len(stack) # 0 /\ Top = stack[Len(stack)] /\ Heap(heap) /\ Len(stack) \in Nat
      /\ Len(stack) \in 1 .. Len(stack)
  <2>1. stack \in Seq(Frame) /\ Len(stack) # 0 /\ Heap(heap) /\ Len(stack) \in Nat
    BY <1>0, <1>1, StackSeq DEF ParsePart
  <2>2. Top = stack[Len(stack)]
    BY <1>1, <2>1, StackSeq
  <2> QED
    BY <2>1, <2>2
<1>3. Pending(heap, g, K, stack, root)
  OBVIOUS
<1>5. /\ ~Full(heap)
      /\ heap' = IF Top.head = Nil THEN b ELSE [b EXCEPT ![Top.cur].next = f, ![f].prev = Top.cur]
      /\ stack' = t
  BY <1>0
<1>a. f \in Item \ DOMAIN heap
  BY <1>2, <1>5, FreshItem
<1>b. Extended(heap, stack, stack', f)
  BY <1>2, <1>5, <1>a, ElementFrame
<1>c. IF Top.head = Nil THEN heap' = b ELSE Chained(heap', b, Top.cur, f)
  <2>1. CASE Top.head = Nil
    BY <1>5, <2>1
  <2>2. CASE Top.head # Nil
    <3>1. InOrder(g, K) /\ Framed(K, stack, root) /\ DOMAIN K = DOMAIN heap
      BY <1>3 DEF Pending, InOrder, Rep, Unclosed, Alike
    <3>2. Top.item \in DOMAIN K /\ Top.head = FirstOf(K[Top.item]) /\ Top.cur = LastOf(K[Top.item])
      BY <1>2, <3>1 DEF Framed
    <3>3. Top.cur \in DOMAIN heap
      <4>1. Len(K[Top.item]) # 0
        BY <2>2, <3>1, <3>2, Ends
      <4> QED
        BY <3>1, <3>2, <4>1, Ends
    <3>4. Top.cur \in DOMAIN b /\ f \in DOMAIN b
      BY <3>3 DEF WithItem
    <3>5. Heap(b)
      BY <1>2, <1>5, WithHeap
    <3>6. heap' = [b EXCEPT ![Top.cur].next = f, ![f].prev = Top.cur]
      BY <1>5, <2>2
    <3> HIDE DEF b, f
    <3>7. Chained(heap', b, Top.cur, f)
      BY <3>4, <3>5, <3>6, ElementLinks
    <3> QED
      BY <2>2, <3>7
  <2> QED
    BY <2>1, <2>2
<1>d. AwaitsBare(heap', stack', root, f, K, Top.item)
  <2> DEFINE top == Top
             e == heap'
             s2 == stack'
  <2>1. /\ Pending(heap, g, K, stack, root) /\ Len(stack) # 0 /\ ~Full(heap) /\ f = Fresh(heap)
        /\ top = stack[Len(stack)] /\ Extended(heap, stack, s2, f)
        /\ LinksNew(e, heap, "invalid", top, f)
    BY <1>2, <1>3, <1>5, <1>b, <1>c DEF LinksNew
  <2> HIDE DEF f, top, e, s2
  <2>2. AwaitsBare(e, s2, root, f, K, top.item)
    BY ONLY <2>1, PendElement
  <2> QED
    BY <2>2 DEF e, s2, top
<1> QED
  BY <1>2, <1>5, <1>b, <1>c, <1>d DEF LinksNew

LEMMA ElementKeeps == ParsePart /\ ParseElement => ParsePart'
<1> SUFFICES ASSUME ParsePart, ParseElement PROVE ParsePart'
  OBVIOUS
<1> DEFINE f == Fresh(heap)
<1>0. /\ pc = "first" \/ (pc = "after" /\ stack # <<>>)
      /\ root' = root
      /\ pc' \in {"value", "name"} \/ (pc' = "fail" /\ heap' = heap /\ stack' = stack)
  BY Zenon DEF ParseElement, Goto, Starve
<1>1. pc \in Unready
  BY <1>0 DEF Unready
<1>3. PICK g, K : Pending(heap, g, K, stack, root)
  BY <1>1 DEF ParsePart, Unfinished
<1>4. CASE pc' = "fail" /\ heap' = heap /\ stack' = stack
  BY <1>0, <1>1, <1>4, FailKeeps
<1>5. CASE pc' \in {"value", "name"}
  <2>1. pc' # "fail"
    BY <1>5
  <2>2. Len(stack) # 0 /\ Extended(heap, stack, stack', f) /\ AwaitsBare(heap', stack', root, f, K, Top.item)
    BY <1>3, <2>1, ElementTree
  <2>3. \E x, L : Pending(heap', x, L, stack', root) /\ f \in DOMAIN L /\ L[f] = <<>>
    BY <2>2 DEF AwaitsBare, Grew
  <2>4. Awaits(stack', root') = f /\ Len(stack') # 0
    BY <2>2 DEF Awaits, Extended
  <2>5. Awaiting(heap', stack', root') /\ Unfinished(heap', stack', root')
    <3> HIDE DEF f
    <3> QED
      BY <1>0, <2>3, <2>4 DEF Awaiting, Unfinished
  <2> QED
    BY <1>5, <2>4, <2>5 DEF ParsePart, Unready, Bare
<1> QED
  BY <1>0, <1>4, <1>5

LEMMA NameKeeps == ParsePart /\ ParseName => ParsePart'
<1> SUFFICES ASSUME ParsePart, ParseName PROVE ParsePart'
  OBVIOUS
<1>0. /\ pc = "name" /\ stack' = stack /\ root' = root
      /\ \/ pc' = "colon" /\ heap' = [heap EXCEPT ![Top.cur].name = Token]
         \/ pc' = "fail" /\ heap' = heap
  BY DEF ParseName, Goto, Starve
<1>1. pc \in Bare /\ Len(stack) # 0
  BY <1>0 DEF Bare, ParsePart
<1>2. Awaiting(heap, stack, root) /\ Heap(heap) /\ Target \in DOMAIN heap /\ pc \in Unready /\ Unfinished(heap, stack, root)
  BY <1>1, TargetThere DEF ParsePart
<1>3. Target = Top.cur
  <2>1. stack # <<>>
    BY <1>1, <1>2, StackSeq
  <2> QED
    BY <2>1 DEF Target
<1>4. SameShape([heap EXCEPT ![Top.cur].name = Token], heap)
  BY <1>2, <1>3, SameName
<1>5. CASE pc' = "fail" /\ heap' = heap
  BY <1>0, <1>2, <1>5, FailKeeps
<1>6. CASE pc' = "colon" /\ heap' = [heap EXCEPT ![Top.cur].name = Token]
  <2>1. Unfinished(heap', stack', root') /\ Awaiting(heap', stack', root')
    BY <1>0, <1>2, <1>4, <1>6, UnfinishedSame
  <2> QED
    BY <1>0, <1>1, <1>6, <2>1 DEF ParsePart, Unready, Bare
<1> QED
  BY <1>0, <1>5, <1>6

LEMMA ColonKeeps == ParsePart /\ ParseColon => ParsePart'
<1> SUFFICES ASSUME ParsePart, ParseColon PROVE ParsePart'
  OBVIOUS
<1>0. /\ pc = "colon" /\ stack' = stack /\ root' = root /\ heap' = heap
      /\ pc' \in {"value", "fail"}
  BY Zenon DEF ParseColon, Goto
<1> QED
  BY <1>0 DEF ParsePart, Unready, Bare

LEMMA OtherKeeps == ParsePart /\ (ParseNothing \/ ParseNoName \/ ParseUnexpected) => ParsePart'
<1> SUFFICES ASSUME ParsePart, ParseNothing \/ ParseNoName \/ ParseUnexpected PROVE ParsePart'
  OBVIOUS
<1>0. /\ pc \in {"value", "name", "after"} /\ stack' = stack /\ root' = root /\ heap' = heap
      /\ pc' = "fail"
  BY Zenon DEF ParseNothing, ParseNoName, ParseUnexpected, Goto
<1>1. pc \in Unready
  BY <1>0 DEF Unready
<1> QED
  BY <1>0, <1>1, FailKeeps

LEMMA DoneKeeps == ParsePart /\ ParseDone => ParsePart'
<1> SUFFICES ASSUME ParsePart, ParseDone PROVE ParsePart'
  OBVIOUS
<1>0. pc = "after" /\ stack = <<>> /\ pc' = "parsed" /\ heap' = heap /\ root' = root
  BY DEF ParseDone, Goto
<1>1. pc \in Unready
  BY <1>0 DEF Unready
<1>2. PICK g, K : Pending(heap, g, K, stack, root)
  BY <1>1 DEF ParsePart, Unfinished
<1>3. Len(stack) = 0
  BY <1>0
<1>4. Owns(heap, {root}) /\ root \in DOMAIN heap
  BY <1>2, <1>3, PendDone
<1> QED
  BY <1>0, <1>4 DEF ParsePart, Unready, Bare

LEMMA GiveUpKeeps == ParsePart /\ ParseFail => ParsePart'
<1> SUFFICES ASSUME ParsePart, ParseFail PROVE ParsePart'
  OBVIOUS
<1>1. pc = "fail" /\ pc \in Unready
  BY DEF ParseFail, Unready
<1>2. PICK g, K : Pending(heap, g, K, stack, root)
  BY <1>1 DEF ParsePart, Unfinished
<1>3. stack \in Seq(Frame) /\ Len(stack) \in Nat /\ (stack = <<>> <=> Len(stack) = 0)
  BY <1>1, StackSeq
<1>4. CASE stack = <<>>
  <2>1. heap' = Delete(heap, root) /\ root' = Nil /\ pc' = "refused"
    BY <1>4 DEF ParseFail, Goto
  <2>2. Owns(heap, {root})
    BY <1>2, <1>3, <1>4, PendDone
  <2>3. Owns(heap', {root} \ {root})
    BY <2>1, <2>2, OwnDelete
  <2>4. heap' = <<>>
    <3>1. {root} \ {root} = {}
      OBVIOUS
    <3> QED
      BY <2>3, <3>1, NoneOwned
  <2> QED
    BY <2>1, <2>4 DEF ParsePart, Unready, Bare
<1>5. CASE stack # <<>>
  <2>1. /\ heap' = IF Top.head = Nil THEN heap ELSE Delete(heap, Top.head)
        /\ stack' = Front(stack) /\ pc' = "fail" /\ root' = root
    BY <1>1, <1>5 DEF ParseFail
  <2>2. Len(stack) # 0 /\ Top = stack[Len(stack)]
    BY <1>1, <1>3, <1>5, StackSeq
  <2>3. Popped(stack', stack)
    BY <1>3, <2>1, <2>2, FrontPopped
  <2>4. CASE Top.head = Nil
    <3>1. Pending(heap, g, K, stack', root)
      BY <1>2, <2>2, <2>3, <2>4, PendSkip
    <3>2. Unfinished(heap', stack', root')
      BY <2>1, <2>4, <3>1 DEF Unfinished
    <3> QED
      BY <2>1, <3>2 DEF ParsePart, Unready, Bare
  <2>5. CASE Top.head # Nil
    <3>1. \E x, L : Pending(Delete(heap, stack[Len(stack)].head), x, L, stack', root)
      BY <1>2, <2>2, <2>3, <2>5, PendDrop
    <3>2. Unfinished(heap', stack', root')
      BY <2>1, <2>2, <2>5, <3>1 DEF Unfinished
    <3> QED
      BY <2>1, <3>2 DEF ParsePart, Unready, Bare
  <2> QED
    BY <2>4, <2>5
<1> QED
  BY <1>4, <1>5

LEMMA ParseKeeps == ParsePart /\ Parse => ParsePart'
  BY StartKeeps, LeafKeeps, OpenKeeps, CloseKeeps, ElementKeeps, NameKeeps, ColonKeeps,
     OtherKeeps, DoneKeeps, GiveUpKeeps DEF Parse

-----------------------------------------------------------------------------
(* dsp_json_add_string leaves every other item where it was.               *)
LEMMA OwnString ==
    ASSUME NEW h, NEW R, Owns(h, R), NEW o \in R, ~Full(h), NEW k, NEW v
    PROVE  Owns(AddString(h, o, k, v), R)
<1> DEFINE old == ObjectItem(h, o, k)
           freed == IF old = Nil THEN h ELSE Delete(Detach(h, o, old), old)
           new == Fresh(freed)
           bare == WithItem(freed, "string")
           full == [bare EXCEPT ![new].str = v]
           named == [full EXCEPT ![new].name = k]
<1>1. o \in DOMAIN h /\ Heap(h)
  BY Owned
<1>2. old \in ToSet(Children(h, o)) \cup {Nil}
  BY <1>1, ItemFound
<1>3. Owns(freed, R) /\ DOMAIN freed \subseteq DOMAIN h
  <2>1. CASE old = Nil
    BY <2>1
  <2>2. CASE old # Nil
    <3> DEFINE d == Detach(h, o, old)
    <3>1. old \in ToSet(Children(h, o))
      BY <1>2, <2>2
    <3> HIDE DEF old
    <3>2. Owns(d, R \cup {old}) /\ old \notin R /\ DOMAIN d = DOMAIN h
      BY <1>1, <3>1, OwnDetach
    <3> HIDE DEF d
    <3>3. Owns(Delete(d, old), (R \cup {old}) \ {old}) /\ DOMAIN Delete(d, old) \subseteq DOMAIN d
      BY <3>2, OwnDelete
    <3>4. (R \cup {old}) \ {old} = R
      BY <3>2
    <3>5. freed = Delete(d, old)
      BY <2>2 DEF d
    <3> QED
      BY <3>2, <3>3, <3>4, <3>5
  <2> QED
    BY <2>1, <2>2
<1> HIDE DEF old, freed
<1>4. ~Full(freed)
  <2>1. DOMAIN h \subseteq Item /\ DOMAIN h # Item
    BY <1>1 DEF Heap, Full
  <2> QED
    BY <1>3, <2>1 DEF Full
<1>5. Owns(bare, R \cup {new}) /\ new \notin DOMAIN freed /\ DOMAIN bare = DOMAIN freed \cup {new}
  BY <1>3, <1>4, OwnNew
<1>6. R \subseteq DOMAIN freed
  BY <1>3, Owned
<1> HIDE DEF bare, new
<1>7. Owns(full, R \cup {new}) /\ DOMAIN full = DOMAIN bare
  <2>1. new \in DOMAIN bare
    BY <1>5
  <2> QED
    BY <1>5, <2>1, OwnField
<1> HIDE DEF full
<1>8. Owns(named, R \cup {new})
  <2>1. new \in DOMAIN full
    BY <1>5, <1>7
  <2> QED
    BY <1>7, <2>1, OwnField
<1> HIDE DEF named
<1>9. Owns(AddToArray(named, o, new), (R \cup {new}) \ {new})
  <2>1. o \in R \cup {new} /\ new \in R \cup {new} /\ o # new
    BY <1>5, <1>6
  <2> QED
    BY <1>8, <2>1, OwnAdd
<1>10. (R \cup {new}) \ {new} = R
  BY <1>5, <1>6
<1>11. AddString(h, o, k, v) = AddToArray(named, o, new)
  BY DEF AddString, AddToObject, old, freed, new, bare, full, named
<1> QED
  BY <1>9, <1>10, <1>11

-----------------------------------------------------------------------------
(* What the locals of a builder hold before its step n: the root from step *)
(* 2 on, the second local while it is not attached; nothing else is        *)
(* allocated.                                                              *)
Locals(p, n, h, r, s) ==
    /\ p.kind \in Kinds /\ n \in 1 .. Len(Steps(p)) + 1
    /\ Owns(h, {r, s} \ {Nil})
    /\ r = Nil <=> n = 1
    /\ s = Nil <=> ~Holding(p, n)
    /\ r # Nil => r # s

Goes(p, n, b) == Locals(p, n + 1, b.heap, b.root, b.sub)

LEMMA BuiltCases ==
    ASSUME NEW s
    PROVE  /\ IsNew(s) => Built(s) = [heap |-> WithItem(heap, "object"), root |-> Fresh(heap), sub |-> sub]
           /\ IsSub(s) => Built(s) = [heap |-> WithItem(heap, "object"), root |-> root, sub |-> Fresh(heap)]
           /\ IsList(s) => Built(s) = [heap |-> AddToArray(WithItem(heap, "array"), Fresh(heap), sub),
                                       root |-> root, sub |-> Fresh(heap)]
           /\ Attaches(s) => \E k : Built(s) = [heap |-> AddToObject(heap, root, k, sub), root |-> root, sub |-> Nil]
           /\ Writes(s, "root") => \E k, v : Built(s) = [heap |-> AddString(heap, root, k, v), root |-> root, sub |-> sub]
           /\ Writes(s, "sub") => \E k, v : Built(s) = [heap |-> AddString(heap, sub, k, v), root |-> root, sub |-> sub]
<1>1. ASSUME IsNew(s)
      PROVE  Built(s) = [heap |-> WithItem(heap, "object"), root |-> Fresh(heap), sub |-> sub]
  BY <1>1, Zenon DEF IsNew, Built
<1>2. ASSUME IsSub(s)
      PROVE  Built(s) = [heap |-> WithItem(heap, "object"), root |-> root, sub |-> Fresh(heap)]
  <2>1. s = <<"new", "sub">> /\ s # <<"new", "root">>
    BY <1>2 DEF IsSub
  <2> QED
    BY <2>1, Zenon DEF Built
<1>3. ASSUME IsList(s)
      PROVE  Built(s) = [heap |-> AddToArray(WithItem(heap, "array"), Fresh(heap), sub),
                         root |-> root, sub |-> Fresh(heap)]
  <2>1. s = <<"array">> /\ s # <<"new", "root">> /\ s # <<"new", "sub">>
    BY <1>3 DEF IsList
  <2> QED
    BY <2>1, Zenon DEF Built
<1>4. ASSUME NEW k, s = <<"attach", k>>
      PROVE  Built(s) = [heap |-> AddToObject(heap, root, k, sub), root |-> root, sub |-> Nil]
  <2>1. s[1] = "attach" /\ s[2] = k /\ s # <<"new", "root">> /\ s # <<"new", "sub">> /\ s # <<"array">>
    BY <1>4
  <2> QED
    BY <2>1, Zenon DEF Built
<1>5. ASSUME NEW k, NEW v, s = <<"root", k, v>>
      PROVE  Built(s) = [heap |-> AddString(heap, root, k, v), root |-> root, sub |-> sub]
  <2>1. s[1] = "root" /\ s[1] # "attach" /\ s[2] = k /\ s[3] = v
        /\ s # <<"new", "root">> /\ s # <<"new", "sub">> /\ s # <<"array">>
    BY <1>5
  <2> QED
    BY <2>1, Zenon DEF Built
<1>6. ASSUME NEW k, NEW v, s = <<"sub", k, v>>
      PROVE  Built(s) = [heap |-> AddString(heap, sub, k, v), root |-> root, sub |-> sub]
  <2>1. s[1] = "sub" /\ s[1] # "attach" /\ s[1] # "root" /\ s[2] = k /\ s[3] = v
        /\ s # <<"new", "root">> /\ s # <<"new", "sub">> /\ s # <<"array">>
    BY <1>6
  <2> QED
    BY <2>1, Zenon DEF Built
<1>7. Attaches(s) => \E k : Built(s) = [heap |-> AddToObject(heap, root, k, sub), root |-> root, sub |-> Nil]
  BY <1>4 DEF Attaches
<1>8. Writes(s, "root") => \E k, v : Built(s) = [heap |-> AddString(heap, root, k, v), root |-> root, sub |-> sub]
  BY <1>5 DEF Writes
<1>9. Writes(s, "sub") => \E k, v : Built(s) = [heap |-> AddString(heap, sub, k, v), root |-> root, sub |-> sub]
  BY <1>6 DEF Writes
<1> QED
  BY <1>1, <1>2, <1>3, <1>7, <1>8, <1>9

LEMMA Forms ==
    ASSUME NEW p, p.kind \in Kinds, NEW n \in 1 .. Len(Steps(p))
    PROVE  /\ n = 1 => IsNew(Steps(p)[n])
           /\ n = 2 /\ p.kind \in TwoLocals => IsSub(Steps(p)[n])
           /\ n > 1 /\ p.kind \notin TwoLocals => Writes(Steps(p)[n], "root")
           /\ n > 2 /\ p.kind \in TwoLocals /\ n = Len(Steps(p)) => Attaches(Steps(p)[n])
           /\ n > 2 /\ p.kind \in TwoLocals /\ n # Len(Steps(p)) =>
                IsList(Steps(p)[n]) \/ Writes(Steps(p)[n], "root") \/ Writes(Steps(p)[n], "sub")
           /\ Len(Steps(p)) \in Nat /\ Len(Steps(p)) >= 4
<1> DEFINE m == Len(Steps(p))
           s == Steps(p)[n]
<1>1. m \in Nat /\ m >= 4 /\ (n = 1 => IsNew(s))
  BY StepsShaped DEF Shaped
<1>2. ASSUME n \in 2 .. m
      PROVE  IF p.kind \notin TwoLocals THEN Writes(s, "root")
             ELSE IF n = 2 THEN IsSub(s)
             ELSE IF n = m THEN Attaches(s)
             ELSE IsList(s) \/ Writes(s, "root") \/ Writes(s, "sub")
  BY <1>2, StepsShaped, Zenon DEF Shaped
<1>3. n > 1 => n \in 2 .. m
  BY <1>1
<1> HIDE DEF s
<1>4. n \in 1 .. m
  OBVIOUS
<1> HIDE DEF m
<1>5. n > 1 /\ p.kind \notin TwoLocals => Writes(s, "root")
  BY <1>2, <1>3
<1>6. n = 2 /\ p.kind \in TwoLocals => IsSub(s)
  <2>1. n = 2 => n > 1
    BY <1>1, <1>4
  <2> QED
    BY <1>2, <1>3, <2>1
<1>7. n > 2 => n > 1 /\ n # 2
  BY <1>1, <1>4
<1>8. n > 2 /\ p.kind \in TwoLocals /\ n = m => Attaches(s)
  BY <1>2, <1>3, <1>7
<1>9. n > 2 /\ p.kind \in TwoLocals /\ n # m => IsList(s) \/ Writes(s, "root") \/ Writes(s, "sub")
  BY <1>2, <1>3, <1>7
<1> QED
  BY <1>1, <1>5, <1>6, <1>8, <1>9 DEF m, s

(* A step of a builder that finds memory.                                  *)
LEMMA StepGoes ==
    ASSUME NEW p, NEW n, n <= Len(Steps(p)), Locals(p, n, heap, root, sub), ~Full(heap)
    PROVE  Goes(p, n, Built(Steps(p)[n]))
<1> DEFINE m == Len(Steps(p))
           s == Steps(p)[n]
           R == {root, sub} \ {Nil}
           two == p.kind \in TwoLocals
<1>0. /\ p.kind \in Kinds /\ Owns(heap, R) /\ (root = Nil <=> n = 1)
      /\ (sub = Nil <=> ~Holding(p, n)) /\ (root # Nil => root # sub)
      /\ n \in 1 .. m + 1 /\ m \in Nat /\ m >= 4
  BY StepsShaped DEF Locals, Shaped
<1>1. n \in 1 .. m /\ n + 1 \in 1 .. m + 1 /\ n \in Nat /\ n + 1 # 1
  BY <1>0
<1>2. /\ n = 1 => IsNew(s)
      /\ n = 2 /\ two => IsSub(s)
      /\ n > 1 /\ ~two => Writes(s, "root")
      /\ n > 2 /\ two /\ n = m => Attaches(s)
      /\ n > 2 /\ two /\ n # m => IsList(s) \/ Writes(s, "root") \/ Writes(s, "sub")
  BY <1>0, <1>1, Forms
<1>3. \A k : Holding(p, k) <=> two /\ k \in 3 .. m
  BY DEF Holding
<1> HIDE DEF s, two, R, m
<1>4. ASSUME NEW h, NEW r, NEW t, Owns(h, {r, t} \ {Nil}), r # Nil, r # t,
             t = Nil <=> ~(two /\ n + 1 \in 3 .. m)
      PROVE  Goes(p, n, [heap |-> h, root |-> r, sub |-> t])
  <2>1. Locals(p, n + 1, h, r, t)
    BY <1>0, <1>1, <1>3, <1>4 DEF Locals, m
  <2> QED
    BY <2>1 DEF Goes
<1>5. CASE n = 1
  <2>1. root = Nil /\ sub = Nil
    BY <1>0, <1>3, <1>5
  <2>2. Owns(heap, {})
    <3>1. R = {}
      BY <2>1 DEF R
    <3> QED
      BY <1>0, <3>1
  <2>3. Owns(WithItem(heap, "object"), {} \cup {Fresh(heap)}) /\ Fresh(heap) # Nil
    BY <2>2, OwnNew
  <2>4. {} \cup {Fresh(heap)} = {Fresh(heap), Nil} \ {Nil}
    BY <2>3
  <2>5. Nil = Nil <=> ~(two /\ n + 1 \in 3 .. m)
    BY <1>0, <1>5
  <2>6. Goes(p, n, [heap |-> WithItem(heap, "object"), root |-> Fresh(heap), sub |-> Nil])
    BY <1>4, <2>3, <2>4, <2>5
  <2>7. Built(s) = [heap |-> WithItem(heap, "object"), root |-> Fresh(heap), sub |-> sub]
    BY <1>2, <1>5, BuiltCases
  <2> QED
    BY <2>1, <2>6, <2>7 DEF s
<1>6. CASE n = 2 /\ two
  <2>1. root # Nil /\ sub = Nil
    BY <1>0, <1>3, <1>6
  <2>2. Owns(heap, {root})
    <3>1. R = {root}
      BY <2>1 DEF R
    <3> QED
      BY <1>0, <3>1
  <2>3. Owns(WithItem(heap, "object"), {root} \cup {Fresh(heap)}) /\ Fresh(heap) # Nil /\ Fresh(heap) \notin DOMAIN heap
    BY <2>2, OwnNew
  <2>4. root \in DOMAIN heap
    BY <2>2, Owned
  <2>5. {root} \cup {Fresh(heap)} = {root, Fresh(heap)} \ {Nil} /\ root # Fresh(heap)
    BY <2>1, <2>3, <2>4
  <2>6. Fresh(heap) = Nil <=> ~(two /\ n + 1 \in 3 .. m)
    BY <1>0, <1>6, <2>3
  <2>7. Goes(p, n, [heap |-> WithItem(heap, "object"), root |-> root, sub |-> Fresh(heap)])
    BY <1>4, <2>1, <2>3, <2>5, <2>6
  <2>8. Built(s) = [heap |-> WithItem(heap, "object"), root |-> root, sub |-> Fresh(heap)]
    BY <1>2, <1>6, BuiltCases
  <2> QED
    BY <2>7, <2>8 DEF s
<1>7. ASSUME n > 1, ~two \/ (n > 2 /\ n # m), Writes(s, "root") PROVE Goes(p, n, Built(s))
  <2>1. root # Nil /\ root \in R /\ Owns(heap, {root, sub} \ {Nil})
    BY <1>0, <1>7 DEF R
  <2>2. PICK k, v : Built(s) = [heap |-> AddString(heap, root, k, v), root |-> root, sub |-> sub]
    BY <1>7, BuiltCases
  <2>3. Owns(AddString(heap, root, k, v), {root, sub} \ {Nil})
    BY <1>0, <2>1, OwnString DEF R
  <2>4. sub = Nil <=> ~(two /\ n + 1 \in 3 .. m)
    BY <1>0, <1>1, <1>3, <1>7
  <2>5. Goes(p, n, [heap |-> AddString(heap, root, k, v), root |-> root, sub |-> sub])
    BY <1>0, <1>4, <2>1, <2>3, <2>4
  <2> QED
    BY <2>2, <2>5
<1>8. ASSUME n > 2, two, n # m, Writes(s, "sub") PROVE Goes(p, n, Built(s))
  <2>1. root # Nil /\ sub # Nil /\ sub \in R /\ Owns(heap, {root, sub} \ {Nil})
    BY <1>0, <1>1, <1>3, <1>8 DEF R
  <2>2. PICK k, v : Built(s) = [heap |-> AddString(heap, sub, k, v), root |-> root, sub |-> sub]
    BY <1>8, BuiltCases
  <2>3. Owns(AddString(heap, sub, k, v), {root, sub} \ {Nil})
    BY <1>0, <2>1, OwnString DEF R
  <2>4. sub = Nil <=> ~(two /\ n + 1 \in 3 .. m)
    BY <1>1, <1>0, <1>8, <2>1
  <2>5. Goes(p, n, [heap |-> AddString(heap, sub, k, v), root |-> root, sub |-> sub])
    BY <1>0, <1>4, <2>1, <2>3, <2>4
  <2> QED
    BY <2>2, <2>5
<1>9. ASSUME n > 2, two, n # m, IsList(s) PROVE Goes(p, n, Built(s))
  <2> DEFINE f == Fresh(heap)
             b == WithItem(heap, "array")
  <2>1. root # Nil /\ sub # Nil /\ R = {root, sub} /\ root # sub
    BY <1>0, <1>1, <1>3, <1>9 DEF R
  <2>2. Owns(b, R \cup {f}) /\ f # Nil /\ f \notin DOMAIN heap
    BY <1>0, OwnNew
  <2>3. root \in DOMAIN heap /\ sub \in DOMAIN heap
    BY <1>0, <2>1, Owned
  <2> HIDE DEF f, b
  <2>4. Owns(AddToArray(b, f, sub), (R \cup {f}) \ {sub})
    <3>1. f \in R \cup {f} /\ sub \in R \cup {f} /\ f # sub
      BY <2>1, <2>2, <2>3
    <3> QED
      BY <2>2, <3>1, OwnAdd
  <2>5. (R \cup {f}) \ {sub} = {root, f} \ {Nil} /\ root # f
    BY <2>1, <2>2, <2>3
  <2>6. f = Nil <=> ~(two /\ n + 1 \in 3 .. m)
    BY <1>1, <1>0, <1>9, <2>2
  <2>7. Goes(p, n, [heap |-> AddToArray(b, f, sub), root |-> root, sub |-> f])
    BY <1>4, <2>1, <2>4, <2>5, <2>6
  <2>8. Built(s) = [heap |-> AddToArray(b, f, sub), root |-> root, sub |-> f]
    BY <1>9, BuiltCases DEF f, b
  <2> QED
    BY <2>7, <2>8
<1>10. ASSUME n > 2, two, n = m PROVE Goes(p, n, Built(s))
  <2>1. root # Nil /\ sub # Nil /\ R = {root, sub} /\ root # sub
    BY <1>0, <1>1, <1>3, <1>10 DEF R
  <2>2. PICK k : Built(s) = [heap |-> AddToObject(heap, root, k, sub), root |-> root, sub |-> Nil]
    BY <1>2, <1>10, BuiltCases
  <2> DEFINE b == [heap EXCEPT ![sub].name = k]
  <2>3. Owns(b, R)
    <3>1. sub \in DOMAIN heap
      BY <1>0, <2>1, Owned
    <3> QED
      BY <1>0, <3>1, OwnField
  <2>4. AddToObject(heap, root, k, sub) = AddToArray(b, root, sub)
    BY DEF AddToObject
  <2> HIDE DEF b
  <2>5. Owns(AddToArray(b, root, sub), R \ {sub})
    <3>1. root \in R /\ sub \in R
      BY <2>1
    <3> QED
      BY <2>1, <2>3, <3>1, OwnAdd
  <2>6. R \ {sub} = {root, Nil} \ {Nil}
    BY <2>1
  <2>7. Nil = Nil <=> ~(two /\ n + 1 \in 3 .. m)
    BY <1>0, <1>1, <1>10
  <2>8. Goes(p, n, [heap |-> AddToArray(b, root, sub), root |-> root, sub |-> Nil])
    BY <1>4, <2>1, <2>5, <2>6, <2>7
  <2> QED
    BY <2>2, <2>4, <2>8
<1>11. n = 1 \/ (n = 2 /\ two) \/ (n > 1 /\ ~two) \/ (n > 2 /\ two /\ n = m) \/ (n > 2 /\ two /\ n # m)
  BY <1>1
<1>12. (n = 1 => Goes(p, n, Built(s))) /\ (n = 2 /\ two => Goes(p, n, Built(s)))
  BY <1>5, <1>6 DEF s
<1>13. Goes(p, n, Built(s))
  <2>1. CASE n > 1 /\ ~two
    BY <1>2, <1>7, <2>1
  <2>2. CASE n > 2 /\ two /\ n # m
    <3>1. n > 1
      BY <1>1, <2>2
    <3> QED
      BY <1>2, <1>7, <1>8, <1>9, <2>2, <3>1
  <2>3. CASE n > 2 /\ two /\ n = m
    BY <1>10, <2>3
  <2> QED
    BY <1>11, <1>12, <2>1, <2>2, <2>3
<1> QED
  BY <1>13 DEF s

(* A builder that fails gives back all that its locals hold.               *)
LEMMA AllDropped == ASSUME NEW p, NEW n, Locals(p, n, heap, root, sub)
                    PROVE  Delete(Delete(heap, sub), root) = <<>>
<1> DEFINE R == {root, sub} \ {Nil}
           h == Delete(heap, sub)
<1>1. Owns(heap, R) /\ (root # Nil => root # sub) /\ (root = Nil => sub = Nil)
  BY DEF Locals, Holding
<1>2. Owns(h, R \ {sub})
  <2>1. CASE sub = Nil
    <3>1. R \ {sub} = R
      BY <2>1
    <3> HIDE DEF R
    <3>2. h = heap
      BY <1>1, <2>1, OwnNil
    <3> QED
      BY <1>1, <3>1, <3>2
  <2>2. CASE sub # Nil
    <3>1. sub \in R
      BY <2>2
    <3> QED
      BY <1>1, <3>1, OwnDelete
  <2> QED
    BY <2>1, <2>2
<1>3. Owns(Delete(h, root), {})
  <2>1. CASE root = Nil
    <3>1. R \ {sub} = {}
      BY <1>1, <2>1
    <3> HIDE DEF R, h
    <3>2. Delete(h, root) = h
      BY <1>2, <2>1, OwnNil
    <3> QED
      BY <1>2, <3>1, <3>2
  <2>2. CASE root # Nil
    <3>1. R \ {sub} = {root}
      BY <1>1, <2>2
    <3> HIDE DEF R, h
    <3>2. Owns(Delete(h, root), {root} \ {root})
      BY <1>2, <3>1, OwnDelete
    <3>3. {root} \ {root} = {}
      OBVIOUS
    <3> QED
      BY <3>2, <3>3
  <2> QED
    BY <2>1, <2>2
<1> QED
  BY <1>3, NoneOwned

-----------------------------------------------------------------------------
(* What is allocated at each stage of a handler.                           *)
Printers == {"print", "piece", "printed", "unprinted"}
Building == {"catalog", "request", "offers", "agree", "terminate", "negGet", "start", "complete", "xferGet",
             "build_agreement"}

HeapInv ==
    /\ at \in {"idle", "validate", "extract", "build", "print", "answer", "answered"}
    /\ at \in {"idle", "answer", "answered"} => heap = <<>> /\ root = Nil
    /\ at \in {"validate", "extract"} => ParsePart
    /\ at = "extract" => call \in {"offers", "start", "terminate"}
    /\ at = "build" => Locals(plan, step, heap, root, sub)
    /\ at = "print" => Owns(heap, {root}) /\ pc \in Printers
    /\ at # "build" => sub = Nil
    /\ buf = NoBuf \/ (at = "print" /\ pc = "piece")

LEMMA PlanKinds == ASSUME NEW c \in Building, NEW p, NEW q \in Plans(c, p) PROVE q.kind \in Kinds
<1> DEFINE of(kind, states) == [kind : {kind}, pid : {p}, state : states]
<1>1. \A kind \in Kinds : \A states : \A x \in of(kind, states) : x.kind \in Kinds
  OBVIOUS
<1>2. [NoPlan EXCEPT !.kind = "catalog"].kind \in Kinds
  BY DEF NoPlan, Kinds
<1>3. CASE c \in {"catalog", "request"}
  <2>1. Plans(c, p) = {[NoPlan EXCEPT !.kind = "catalog"]}
    BY <1>3, Zenon DEF Plans
  <2> QED
    BY <1>2, <2>1
<1> HIDE DEF of
<1>4. \A kind \in {"event", "start", "completion", "error", "agreement"} : kind \in Kinds
  BY DEF Kinds
<1>5. CASE c = "offers"
  <2>1. \E states : Plans(c, p) = of("event", states)
    BY <1>5, Zenon DEF Plans, of
  <2> QED
    BY <1>1, <1>4, <2>1
<1>6. CASE c = "agree"
  <2>1. \E states : Plans(c, p) = of("event", states)
    BY <1>6, Zenon DEF Plans, of
  <2> QED
    BY <1>1, <1>4, <2>1
<1>7. CASE c = "terminate"
  <2>1. \E states : Plans(c, p) = of("event", states)
    BY <1>7, Zenon DEF Plans, of
  <2> QED
    BY <1>1, <1>4, <2>1
<1>8. CASE c = "negGet"
  <2>1. \E states : Plans(c, p) = of("event", states)
    BY <1>8, Zenon DEF Plans, of
  <2> QED
    BY <1>1, <1>4, <2>1
<1>9. CASE c = "start"
  <2>1. \E states : Plans(c, p) = of("start", states)
    BY <1>9, Zenon DEF Plans, of
  <2> QED
    BY <1>1, <1>4, <2>1
<1>10. CASE c = "complete"
  <2>1. \E states : Plans(c, p) = of("completion", states)
    BY <1>10, Zenon DEF Plans, of
  <2> QED
    BY <1>1, <1>4, <2>1
<1>11. CASE c = "xferGet"
  <2>1. \E states : Plans(c, p) = of("start", states) \cup of("completion", states) \cup of("error", states)
    BY <1>11, Zenon DEF Plans, of
  <2> QED
    BY <1>1, <1>4, <2>1
<1>12. CASE c = "build_agreement"
  <2>1. \E states : Plans(c, p) = of("agreement", states)
    BY <1>12, Zenon DEF Plans, of
  <2> QED
    BY <1>1, <1>4, <2>1
<1> QED
  BY <1>3, <1>5, <1>6, <1>7, <1>8, <1>9, <1>10, <1>11, <1>12 DEF Building

(* A builder starts with nothing allocated.                                *)
LEMMA BuildStarts ==
    ASSUME NEW c \in Building, NEW p, Build(c, p), heap' = <<>>, root' = Nil, sub' = Nil, buf' = NoBuf
    PROVE  HeapInv'
<1>1. at' = "build" /\ step' = 1 /\ plan' \in Plans(c, p)
  BY DEF Build
<1>2. plan'.kind \in Kinds
  BY <1>1, PlanKinds
<1>3. Len(Steps(plan')) \in Nat
  BY <1>2, StepsShaped DEF Shaped
<1>4. ~Holding(plan', 1)
  BY DEF Holding
<1>5. {Nil, Nil} \ {Nil} = {}
  OBVIOUS
<1>6. 1 \in 1 .. Len(Steps(plan')) + 1
  BY <1>3
<1>7. Locals(plan', 1, <<>>, Nil, Nil)
  BY <1>2, <1>4, <1>5, <1>6, NothingOwned DEF Locals
<1>8. Locals(plan', step', heap', root', sub')
  BY <1>1, <1>7
<1> QED
  BY <1>1, <1>8 DEF HeapInv

(* Nothing is held between two requests and before an answer.              *)
LEMMA Settled ==
    ASSUME at' \in {"idle", "answer", "answered"}, heap' = <<>>, root' = Nil, sub' = Nil, buf' = NoBuf
    PROVE  HeapInv'
  BY DEF HeapInv

LEMMA DropEmpties == ASSUME ParsePart, pc \in {"parsed", "refused"} PROVE Delete(heap, root) = <<>>
<1>1. CASE pc = "parsed"
  <2>1. Owns(heap, {root})
    BY <1>1 DEF ParsePart
  <2>2. Owns(Delete(heap, root), {root} \ {root})
    BY <2>1, OwnDelete
  <2>3. {root} \ {root} = {}
    OBVIOUS
  <2> QED
    BY <2>2, <2>3, NoneOwned
<1>2. CASE pc = "refused"
  <2>1. heap = <<>> /\ root = Nil
    BY <1>2 DEF ParsePart
  <2> QED
    BY <2>1, NothingOwned, OwnNil
<1> QED
  BY <1>1, <1>2

(* A handler goes on to parse with nothing allocated.                      *)
LEMMA ParseStarts ==
    ASSUME at' \in {"validate", "extract"}, at' = "extract" => call' \in {"offers", "start", "terminate"},
           pc' = "parse", heap' = <<>>, root' = Nil, sub' = Nil, buf' = NoBuf
    PROVE  HeapInv'
<1>1. ParsePart'
  BY DEF ParsePart, Unready, Bare
<1> QED
  BY <1>1 DEF HeapInv

-----------------------------------------------------------------------------
LEMMA HeapInit == Init => HeapInv
  BY DEF Init, HeapInv

LEMMA RequestHeap == ASSUME HeapInv, NEW c \in Posting, NEW b, Request(c, b) PROVE HeapInv'
<1>1. heap = <<>> /\ root = Nil /\ sub = Nil /\ buf = NoBuf /\ at = "idle"
  BY DEF HeapInv, Request
<1>2. heap' = <<>> /\ root' = Nil /\ sub' = Nil /\ buf' = NoBuf
  BY <1>1 DEF Request
<1>3. CASE b.text = <<>>
  <2>1. at' = "answered"
    BY <1>3, Zenon DEF Request, Refuse, Reply
  <2> QED
    BY <1>2, <2>1, Settled
<1>4. CASE b.text # <<>>
  <2>1. /\ call' = c /\ pc' = "parse" /\ at' = IF c = "terminate" THEN "extract" ELSE "validate"
    BY <1>4, Zenon DEF Request, Goto
  <2> QED
    BY <1>2, <2>1, ParseStarts
<1> QED
  BY <1>3, <1>4

LEMMA LookupHeap == ASSUME HeapInv, NEW c \in Reading, NEW p, Lookup(c, p) PROVE HeapInv'
<1>1. heap = <<>> /\ root = Nil /\ sub = Nil /\ buf = NoBuf /\ at = "idle"
  BY DEF HeapInv, Lookup
<1>2. heap' = <<>> /\ root' = Nil /\ sub' = Nil /\ buf' = NoBuf
  BY <1>1 DEF Lookup, textVars
<1>3. Build(c, p) \/ Refuse
  BY Zenon DEF Lookup
<1>4. c \in Building
  BY DEF Reading, Building
<1>5. CASE Build(c, p)
  BY <1>2, <1>4, <1>5, BuildStarts
<1>6. CASE Refuse
  BY <1>2, <1>6, Settled DEF Refuse, Reply
<1> QED
  BY <1>3, <1>5, <1>6

LEMMA ParsingHeap == HeapInv /\ Parsing => HeapInv'
<1> SUFFICES ASSUME HeapInv, Parsing PROVE HeapInv'
  OBVIOUS
<1>1. at \in {"validate", "extract"} /\ Parse /\ at' = at /\ call' = call /\ sub' = sub
  BY DEF Parsing, msgVars
<1>2. ParsePart /\ sub = Nil /\ buf = NoBuf
  BY <1>1 DEF HeapInv
<1>3. ParsePart'
  BY <1>1, <1>2, ParseKeeps
<1>4. buf' = buf
  BY <1>1, Zenon DEF Parse, ParseStart, ParseLeaf, ParseOpen, ParseNothing, ParseClose, ParseElement,
     ParseName, ParseNoName, ParseColon, ParseUnexpected, ParseDone, ParseFail
<1> QED
  BY <1>1, <1>2, <1>3, <1>4 DEF HeapInv

LEMMA ValidateHeap == HeapInv /\ Validate => HeapInv'
<1> SUFFICES ASSUME HeapInv, Validate PROVE HeapInv'
  OBVIOUS
<1>1. /\ at = "validate" /\ pc \in {"parsed", "refused"}
      /\ heap' = Delete(heap, root) /\ root' = Nil /\ sub' = sub /\ buf' = buf /\ call' = call
      /\ \/ call \in {"offers", "start"} /\ at' = "extract" /\ pc' = "parse"
         \/ call = "request" /\ Build(call, "")
         \/ at' = "answered"
  BY Zenon DEF Validate, Checked, DropTree, Goto, Reply
<1>2. ParsePart /\ sub = Nil /\ buf = NoBuf
  BY <1>1 DEF HeapInv
<1>3. heap' = <<>> /\ root' = Nil /\ sub' = Nil /\ buf' = NoBuf
  BY <1>1, <1>2, DropEmpties
<1>4. CASE call \in {"offers", "start"} /\ at' = "extract" /\ pc' = "parse"
  BY <1>1, <1>3, <1>4, ParseStarts
<1>5. CASE call = "request" /\ Build(call, "")
  <2>1. call \in Building
    BY <1>5 DEF Building
  <2> QED
    BY <1>3, <1>5, <2>1, BuildStarts
<1>6. CASE at' = "answered"
  BY <1>3, <1>6, Settled
<1> QED
  BY <1>1, <1>4, <1>5, <1>6

LEMMA ExtractHeap == HeapInv /\ Extract => HeapInv'
<1> SUFFICES ASSUME HeapInv, Extract PROVE HeapInv'
  OBVIOUS
<1>1. /\ at = "extract" /\ pc \in {"parsed", "refused"}
      /\ heap' = Delete(heap, root) /\ root' = Nil /\ sub' = sub /\ buf' = buf
      /\ (\E p : Build(call, p)) \/ at' = "answered"
  BY Zenon DEF Extract, DropTree, Refuse, Reply
<1>2. ParsePart /\ sub = Nil /\ buf = NoBuf /\ call \in {"offers", "start", "terminate"}
  BY <1>1 DEF HeapInv
<1>3. heap' = <<>> /\ root' = Nil /\ sub' = Nil /\ buf' = NoBuf
  BY <1>1, <1>2, DropEmpties
<1>4. CASE \E p : Build(call, p)
  <2>1. call \in Building
    BY <1>2 DEF Building
  <2> QED
    BY <1>3, <1>4, <2>1, BuildStarts
<1>5. CASE at' = "answered"
  BY <1>3, <1>5, Settled
<1> QED
  BY <1>1, <1>4, <1>5

LEMMA StepHeap == HeapInv /\ BuildStep => HeapInv'
<1> SUFFICES ASSUME HeapInv, BuildStep PROVE HeapInv'
  OBVIOUS
<1>1. /\ at = "build" /\ step <= Len(Steps(plan)) /\ ~Full(heap)
      /\ heap' = Built(Steps(plan)[step]).heap /\ root' = Built(Steps(plan)[step]).root
      /\ sub' = Built(Steps(plan)[step]).sub
      /\ step' = step + 1 /\ at' = at /\ plan' = plan /\ buf' = buf
  BY Zenon DEF BuildStep
<1>2. Locals(plan, step, heap, root, sub) /\ buf = NoBuf
  BY <1>1 DEF HeapInv
<1>3. Goes(plan, step, Built(Steps(plan)[step]))
  BY <1>1, <1>2, StepGoes
<1>4. Locals(plan', step', heap', root', sub')
  BY <1>1, <1>3 DEF Goes
<1> QED
  BY <1>1, <1>2, <1>4 DEF HeapInv

LEMMA FailsHeap == HeapInv /\ BuildFails => HeapInv'
<1> SUFFICES ASSUME HeapInv, BuildFails PROVE HeapInv'
  OBVIOUS
<1>1. /\ at = "build" /\ heap' = Delete(Delete(heap, sub), root) /\ root' = Nil /\ sub' = Nil
      /\ at' = "answer" /\ buf' = buf
  BY DEF BuildFails
<1>2. Locals(plan, step, heap, root, sub) /\ buf = NoBuf
  BY <1>1 DEF HeapInv
<1>3. heap' = <<>>
  BY <1>1, <1>2, AllDropped
<1> QED
  BY <1>1, <1>2, <1>3, Settled

LEMMA PrintHeap == HeapInv /\ PrintAnswer => HeapInv'
<1> SUFFICES ASSUME HeapInv, PrintAnswer PROVE HeapInv'
  OBVIOUS
<1>1. /\ at = "build" /\ step > Len(Steps(plan)) /\ at' = "print" /\ pc' = "print"
      /\ heap' = heap /\ root' = root /\ sub' = sub /\ buf' = buf
  BY DEF PrintAnswer, Goto
<1>2. /\ plan.kind \in Kinds /\ step \in 1 .. Len(Steps(plan)) + 1 /\ Owns(heap, {root, sub} \ {Nil})
      /\ (root = Nil <=> step = 1) /\ (sub = Nil <=> ~Holding(plan, step)) /\ buf = NoBuf
  BY <1>1 DEF HeapInv, Locals
<1>3. Len(Steps(plan)) \in Nat /\ Len(Steps(plan)) >= 4
  BY <1>2, StepsShaped DEF Shaped
<1>4. sub = Nil /\ root # Nil
  BY <1>1, <1>2, <1>3 DEF Holding
<1>5. {root, sub} \ {Nil} = {root}
  BY <1>4
<1>6. Owns(heap', {root'})
  BY <1>1, <1>2, <1>5
<1> QED
  BY <1>1, <1>2, <1>4, <1>6 DEF HeapInv, Printers

LEMMA PieceHeap == HeapInv /\ PrintingAnswer => HeapInv'
<1> SUFFICES ASSUME HeapInv, PrintingAnswer PROVE HeapInv'
  OBVIOUS
<1>1. at = "print" /\ Printing /\ at' = at /\ sub' = sub
  BY DEF PrintingAnswer, msgVars
<1>2. Owns(heap, {root}) /\ sub = Nil
  BY <1>1 DEF HeapInv
<1>3. /\ heap' = heap /\ root' = root
      /\ pc' \in {"piece", "printed", "unprinted"}
      /\ pc' = "piece" \/ buf' = NoBuf
  <2>1. ASSUME PrintStart PROVE <1>3
    <3>1. buf = NoBuf
      BY <1>1, <2>1 DEF HeapInv, PrintStart
    <3> QED
      BY <2>1, <3>1, Zenon DEF PrintStart, Starve, Goto
  <2>2. ASSUME PrintPiece PROVE <1>3
    BY <2>2, Zenon DEF PrintPiece, Starve, Goto
  <2>3. ASSUME PrintDone PROVE <1>3
    BY <2>3, Zenon DEF PrintDone, Starve, Goto
  <2> QED
    BY <1>1, <2>1, <2>2, <2>3 DEF Printing
<1> QED
  BY <1>1, <1>2, <1>3 DEF HeapInv, Printers

LEMMA FinaliseHeap == HeapInv /\ Finalise => HeapInv'
<1> SUFFICES ASSUME HeapInv, Finalise PROVE HeapInv'
  OBVIOUS
<1>1. /\ at = "print" /\ pc \in {"printed", "unprinted"} /\ heap' = Delete(heap, root) /\ root' = Nil
      /\ at' = "answer" /\ sub' = sub /\ buf' = buf
  BY Zenon DEF Finalise
<1>2. Owns(heap, {root}) /\ sub = Nil /\ buf = NoBuf
  BY <1>1 DEF HeapInv
<1>3. Owns(heap', {root} \ {root})
  BY <1>1, <1>2, OwnDelete
<1>4. heap' = <<>>
  <2>1. {root} \ {root} = {}
    OBVIOUS
  <2> QED
    BY <1>3, <2>1, NoneOwned
<1> QED
  BY <1>1, <1>2, <1>4, Settled

LEMMA AnswerHeap == HeapInv /\ (Answer \/ Return) => HeapInv'
<1> SUFFICES ASSUME HeapInv, Answer \/ Return PROVE HeapInv'
  OBVIOUS
<1>1. heap = <<>> /\ root = Nil /\ sub = Nil /\ buf = NoBuf
  BY DEF HeapInv, Answer, Return
<1>2. heap' = heap /\ root' = root /\ sub' = Nil /\ buf' = buf /\ at' \in {"answered", "idle"}
  <2>1. ASSUME Answer PROVE <1>2
    BY <1>1, <2>1, Zenon DEF Answer, Reply, Refuse, textVars
  <2>2. ASSUME Return PROVE <1>2
    BY <2>2 DEF Return
  <2> QED
    BY <2>1, <2>2
<1> QED
  BY <1>1, <1>2, Settled

LEMMA HeapNext == HeapInv /\ [Next]_vars => HeapInv'
<1> SUFFICES ASSUME HeapInv, [Next]_vars PROVE HeapInv'
  OBVIOUS
<1>1. CASE vars' = vars
  <2>1. heap' = heap /\ stack' = stack /\ pc' = pc /\ root' = root /\ buf' = buf /\ call' = call /\ at' = at
        /\ plan' = plan /\ step' = step /\ sub' = sub
    BY <1>1 DEF vars, textVars, msgVars
  <2>2. at \in {"validate", "extract"} => ParsePart'
    BY <2>1 DEF HeapInv, ParsePart
  <2>3. at = "build" => Locals(plan', step', heap', root', sub')
    BY <2>1 DEF HeapInv
  <2> QED
    BY <2>1, <2>2, <2>3 DEF HeapInv
<1>2. CASE \E c \in Posting, b \in Bodies \cup {NoBody} : Request(c, b)
  BY <1>2, RequestHeap
<1>3. CASE \E c \in Reading, p \in Pids : Lookup(c, p)
  BY <1>3, LookupHeap
<1>4. CASE Work
  BY <1>4, ParsingHeap, ValidateHeap, ExtractHeap, StepHeap, FailsHeap, PrintHeap, PieceHeap,
     FinaliseHeap, AnswerHeap DEF Work
<1> QED
  BY <1>1, <1>2, <1>3, <1>4 DEF Next

LEMMA HeapSafe == HeapInv => NothingLeaks
<1> SUFFICES ASSUME HeapInv PROVE NothingLeaks
  OBVIOUS
<1>1. Heap(<<>>)
  BY NothingOwned, Owned
<1>2. Heap(heap)
  <2>1. CASE at \in {"idle", "answer", "answered"}
    BY <1>1, <2>1 DEF HeapInv
  <2>2. CASE at \in {"validate", "extract"}
    <3>1. ParsePart
      BY <2>2 DEF HeapInv
    <3>2. CASE pc \in Unready
      BY <3>1, <3>2, StackSeq
    <3>3. CASE pc = "parsed"
      BY <3>1, <3>3, Owned DEF ParsePart
    <3>4. CASE pc \in {"parse", "refused"}
      BY <1>1, <3>1, <3>4 DEF ParsePart
    <3> QED
      BY <3>1, <3>2, <3>3, <3>4 DEF ParsePart
  <2>3. CASE at = "build"
    BY <2>3, Owned DEF HeapInv, Locals
  <2>4. CASE at = "print"
    BY <2>4, Owned DEF HeapInv
  <2> QED
    BY <2>1, <2>2, <2>3, <2>4 DEF HeapInv
<1>3. NoDangling(heap)
  BY <1>2 DEF Heap, NoDangling
<1>4. at \in {"idle", "answered"} => heap = <<>> /\ buf = NoBuf
  BY DEF HeapInv
<1> QED
  BY <1>3, <1>4 DEF NothingLeaks

(* Whatever the body of a request and whichever allocation fails, no item  *)
(* left in memory points to one that was freed, and when a handler has     *)
(* answered it has deleted every item of the trees it parsed and built and *)
(* freed the print buffer: dsp_msg, dsp_json and dsp_build over cJSON, for *)
(* any memory, texts of any length and depth, and any nesting limit.       *)
THEOREM HandlersLeakNothing == Spec => []NothingLeaks
<1>1. Init => HeapInv
  BY HeapInit
<1>2. HeapInv /\ [Next]_vars => HeapInv'
  BY HeapNext
<1>3. HeapInv => NothingLeaks
  BY HeapSafe
<1> QED
  BY <1>1, <1>2, <1>3, PTL DEF Spec

-----------------------------------------------------------------------------
(* What a tree prints, when it is known which part of a text each of its   *)
(* items came from.                                                        *)
Cut(T, a, b) == SubSeq(T, a + 1, b)

LEMMA CutJoin ==
    ASSUME NEW S, NEW T \in Seq(S), NEW a \in Nat, NEW b \in Nat, NEW c \in Nat, a <= b, b <= c, c <= Len(T)
    PROVE  Cut(T, a, b) \o Cut(T, b, c) = Cut(T, a, c)
<1>1. Len(T) \in Nat
  BY LenProperties
<1>2. a + 1 \in 1 .. Len(T) + 1 /\ b \in (a + 1) - 1 .. Len(T) /\ c \in b .. Len(T)
  BY <1>1
<1> QED
  BY <1>2, ConcatAdjacentSubSeq DEF Cut

LEMMA CutNone == ASSUME NEW T, NEW a \in Nat PROVE Cut(T, a, a) = <<>>
<1>1. a + 1 \in Int /\ a \in Int /\ a < a + 1
  OBVIOUS
<1> QED
  BY <1>1, SubSeqEmpty DEF Cut

LEMMA CutOne == ASSUME NEW S, NEW T \in Seq(S), NEW a \in Nat, a + 1 <= Len(T)
                PROVE  Cut(T, a, a + 1) = <<T[a + 1]>>
<1>1. Len(T) \in Nat /\ a + 1 \in 1 .. Len(T)
  BY LenProperties
<1>2. T[a + 1] \in S
  BY <1>1, ElementOfSeq
<1>3. SubSeq(T, a + 1, a + 1) = <<T[a + 1]>>
  <2> DEFINE p == <<T[a + 1]>>
  <2>1. p \in Seq(S) /\ Len(p) = 1 /\ p[1] = T[a + 1]
    BY <1>2
  <2> HIDE DEF p
  <2>2. \A i \in 1 .. Len(p) : T[a + i] = p[i]
    BY <2>1
  <2>3. a + 1 \in Int /\ a + 1 = a + Len(p) /\ a + 1 <= Len(T)
    BY <2>1
  <2>4. SubSeq(T, a + 1, a + 1) = p
    BY <2>1, <2>2, <2>3, Segment
  <2> QED
    BY <2>4 DEF p
<1> QED
  BY <1>3 DEF Cut

LEMMA CutTwo == ASSUME NEW S, NEW T \in Seq(S), NEW a \in Nat, a + 2 <= Len(T)
                PROVE  Cut(T, a, a + 2) = <<T[a + 1], T[a + 2]>>
<1>1. Len(T) \in Nat /\ a + 1 \in 1 .. Len(T) /\ a + 2 \in 1 .. Len(T)
  BY LenProperties
<1>2. T[a + 1] \in S /\ T[a + 2] \in S
  BY <1>1, ElementOfSeq
<1> DEFINE p == <<T[a + 1], T[a + 2]>>
<1>3. p \in Seq(S) /\ Len(p) = 2 /\ p[1] = T[a + 1] /\ p[2] = T[a + 2]
  BY <1>2
<1> HIDE DEF p
<1>4. \A i \in 1 .. Len(p) : T[a + i] = p[i]
  <2>1. \A i \in 1 .. 2 : i = 1 \/ i = 2
    OBVIOUS
  <2> QED
    BY <1>3, <2>1
<1>5. a + 2 \in Int /\ a + 2 = a + Len(p) /\ a + 2 <= Len(T)
  BY <1>3
<1>6. SubSeq(T, a + 1, a + 2) = p
  BY <1>3, <1>4, <1>5, Segment
<1> QED
  BY <1>6 DEF p, Cut

LEMMA TwoTokens == ASSUME NEW x, NEW y PROVE <<x>> \o <<>> \o <<y>> = <<x, y>>
<1> DEFINE S == {x, y}
<1>1. <<x>> \in Seq(S) /\ <<x, y>> \in Seq(S)
  OBVIOUS
<1>2. <<x>> \o <<>> = <<x>>
  BY <1>1, ConcatEmptySeq
<1>3. <<x>> \o <<y>> = <<x, y>>
  <2> DEFINE p == <<x>>
             q == <<y>>
             z == <<x, y>>
  <2>1. p \in Seq(S) /\ q \in Seq(S) /\ z \in Seq(S) /\ Len(p) = 1 /\ Len(q) = 1 /\ Len(z) = 2
        /\ p[1] = x /\ q[1] = y /\ z[1] = x /\ z[2] = y
    OBVIOUS
  <2> HIDE DEF p, q, z, S
  <2>0. /\ p \o q \in Seq(S) /\ Len(p \o q) = Len(p) + Len(q)
        /\ \A i \in 1 .. Len(p) : (p \o q)[i] = p[i]
        /\ \A i \in 1 .. Len(q) : (p \o q)[Len(p) + i] = q[i]
    BY ONLY <2>1, ConcatAt
  <2>2. /\ p \o q \in Seq(S) /\ Len(p \o q) = 1 + 1
        /\ \A i \in 1 .. 1 : (p \o q)[i] = p[i]
        /\ \A i \in 1 .. 1 : (p \o q)[1 + i] = q[i]
    BY ONLY <2>0, <2>1
  <2>3. 1 + 1 = 2 /\ 1 \in 1 .. 1 /\ \A i \in 1 .. 2 : i = 1 \/ i = 2
    OBVIOUS
  <2>4. Len(p \o q) = Len(z) /\ (p \o q)[1] = z[1] /\ (p \o q)[2] = z[2]
    BY <2>1, <2>2, <2>3
  <2>5. \A i \in 1 .. Len(p \o q) : (p \o q)[i] = z[i]
    BY <2>1, <2>3, <2>4
  <2>6. p \o q = z
    BY <2>1, <2>2, <2>4, <2>5, SeqEqual
  <2> QED
    BY <2>6 DEF p, q, z
<1> QED
  BY <1>2, <1>3

(* The parts of Text.                                                      *)
MemberText(h, j) == IF h[j].name = NoStr THEN <<>> ELSE <<h[j].name, ":">>
CommaText(h, j) == IF h[j].next = Nil THEN <<>> ELSE <<",">>
ValueText(h, j, inner) ==
    CASE h[j].type = "string" -> <<h[j].str>>
      [] h[j].type = "lit" -> <<"lit">>
      [] h[j].type = "array" -> <<"[">> \o inner \o <<"]">>
      [] h[j].type = "object" -> <<"{">> \o inner \o <<"}">>
Printed(h) == CHOOSE f : f = [j \in Item \cup {Nil} |->
                  IF j \notin DOMAIN h THEN <<>>
                  ELSE MemberText(h, j) \o ValueText(h, j, f[h[j].child]) \o CommaText(h, j) \o f[h[j].next]]

LEMMA TextIs == ASSUME NEW h, NEW i PROVE Text(h, i) = ValueText(h, i, Printed(h)[h[i].child])
  BY DEF Text, Printed, ValueText, MemberText, CommaText

(* Item j has its name, if any, from a on and its value from b on, up to   *)
(* c; e[k] is where the value of item k ends.                              *)
Named(h, T, j, a, b) == \/ h[j].name = NoStr /\ b = a
                        \/ h[j].name # NoStr /\ b = a + 2 /\ T[a + 1] = h[j].name /\ T[a + 2] = ":"
Around(K, j, b, c, e) == c = IF Len(K[j]) = 0 THEN b + 2 ELSE e[LastOf(K[j])] + 1
Valued(h, T, K, j, b, c, e) ==
    \/ h[j].type = "string" /\ c = b + 1 /\ T[b + 1] = h[j].str
    \/ h[j].type = "lit" /\ c = b + 1 /\ T[b + 1] = "lit"
    \/ h[j].type = "array" /\ T[b + 1] = "[" /\ T[c] = "]" /\ Around(K, j, b, c, e)
    \/ h[j].type = "object" /\ T[b + 1] = "{" /\ T[c] = "}" /\ Around(K, j, b, c, e)
(* The children of p follow each other.                                    *)
Rowed(T, K, p, a, b, c) ==
    \A n \in 1 .. Len(K[p]) : IF n = 1 THEN a[K[p][1]] = b[p] + 1
                              ELSE a[K[p][n]] = c[K[p][n - 1]] + 1 /\ T[c[K[p][n - 1]] + 1] = ","

Spelled(h, T, K, a, b, c) ==
    /\ {a, b, c} \subseteq [DOMAIN K -> Nat]
    /\ \A j \in DOMAIN K : /\ Named(h, T, j, a[j], b[j]) /\ Valued(h, T, K, j, b[j], c[j], c)
                           /\ b[j] < c[j] /\ c[j] <= Len(T)
                           /\ Rowed(T, K, j, a, b, c)

(* Where the list ends that item j is in.                                  *)
EndOf(K, c, j) == IF Placed(K, j) THEN c[LastOf(K[CHOOSE p \in DOMAIN K : j \in Kin(K)[p]])] ELSE c[j]

LEMMA SpelledStep ==
    ASSUME NEW h, NEW S, NEW T \in Seq(S), NEW K, NEW a, NEW b, NEW c, Spelled(h, T, K, a, b, c), NEW j \in DOMAIN K
    PROVE  /\ a[j] \in Nat /\ b[j] \in Nat /\ c[j] \in Nat /\ a[j] <= b[j] /\ b[j] < c[j] /\ c[j] <= Len(T)
           /\ MemberText(h, j) = Cut(T, a[j], b[j])
<1>1. a[j] \in Nat /\ b[j] \in Nat /\ c[j] \in Nat /\ Named(h, T, j, a[j], b[j]) /\ b[j] < c[j] /\ c[j] <= Len(T)
  BY DEF Spelled
<1>2. Len(T) \in Nat
  BY LenProperties
<1>3. CASE h[j].name = NoStr /\ b[j] = a[j]
  BY <1>1, <1>3, CutNone DEF MemberText
<1>4. CASE h[j].name # NoStr /\ b[j] = a[j] + 2 /\ T[a[j] + 1] = h[j].name /\ T[a[j] + 2] = ":"
  <2>1. a[j] + 2 <= Len(T)
    BY <1>1, <1>2, <1>4
  <2>2. Cut(T, a[j], a[j] + 2) = <<T[a[j] + 1], T[a[j] + 2]>>
    BY <1>1, <2>1, CutTwo
  <2> QED
    BY <1>1, <1>2, <1>4, <2>2 DEF MemberText
<1> QED
  BY <1>1, <1>3, <1>4 DEF Named

LEMMA RowGrows ==
    ASSUME NEW h, NEW S, NEW T \in Seq(S), NEW K, InOrder(h, K), NEW a, NEW b, NEW c, Spelled(h, T, K, a, b, c),
           NEW p \in DOMAIN K, NEW n \in 1 .. Len(K[p])
    PROVE  c[K[p][n]] <= c[K[p][Len(K[p])]]
<1> DEFINE s == K[p]
           L == Len(s)
           B == {m \in 1 .. L : ~(c[s[m]] <= c[s[L]])}
<1>1. L \in Nat /\ \A m \in 1 .. L : s[m] \in DOMAIN K
  BY RepPlace DEF InOrder
<1>2. \A m \in 1 .. L : /\ a[s[m]] \in Nat /\ b[s[m]] \in Nat /\ c[s[m]] \in Nat
                        /\ a[s[m]] <= b[s[m]] /\ b[s[m]] < c[s[m]]
  BY <1>1, SpelledStep
<1>3. \A m \in 1 .. L : m # 1 => a[s[m]] = c[s[m - 1]] + 1
  BY DEF Spelled, Rowed
<1> HIDE DEF s, L
<1> SUFFICES ASSUME B # {} PROVE FALSE
  BY DEF s, L
<1>4. B \subseteq 0 .. L
  BY <1>1
<1>5. PICK m \in B : \A q \in B : q <= m
  BY <1>1, <1>4, GreatestNat
<1>6. m # L
  <2>1. c[s[L]] <= c[s[L]]
    BY <1>1, <1>2, <1>5
  <2> QED
    BY <1>5, <2>1
<1>7. m + 1 \in 1 .. L /\ m + 1 # 1 /\ (m + 1) - 1 = m /\ m \in 1 .. L /\ L \in 1 .. L
  BY <1>1, <1>5, <1>6
<1>8. m + 1 \notin B
  BY <1>5, <1>7
<1>9. c[s[m + 1]] <= c[s[L]] /\ a[s[m + 1]] = c[s[m]] + 1
  BY <1>3, <1>7, <1>8
<1>10. c[s[m]] <= c[s[L]]
  <2> DEFINE w == c[s[m]]
             x == a[s[m + 1]]
             y == b[s[m + 1]]
             z == c[s[m + 1]]
             u == c[s[L]]
  <2>1. w \in Nat /\ x \in Nat /\ y \in Nat /\ z \in Nat /\ u \in Nat /\ x <= y /\ y < z
    BY <1>2, <1>7
  <2>2. z <= u /\ x = w + 1
    BY <1>9
  <2> HIDE DEF w, x, y, z, u
  <2>3. w <= u
    BY <2>1, <2>2
  <2> QED
    BY <2>3 DEF w, u
<1> QED
  BY <1>5, <1>10

EndsRight(h, T, K, a, c) ==
    /\ \A p \in DOMAIN K : \A n \in 1 .. Len(K[p]) : EndOf(K, c, K[p][n]) = c[K[p][Len(K[p])]]
    /\ \A j \in DOMAIN K : /\ EndOf(K, c, j) \in Nat /\ c[j] <= EndOf(K, c, j) /\ EndOf(K, c, j) <= Len(T)
                           /\ \/ h[j].next = Nil /\ EndOf(K, c, j) = c[j]
                              \/ /\ h[j].next \in DOMAIN K /\ h[j].next # Nil
                                 /\ a[h[j].next] = c[j] + 1 /\ T[c[j] + 1] = ","
                                 /\ EndOf(K, c, h[j].next) = EndOf(K, c, j)

LEMMA EndsOf ==
    ASSUME NEW h, NEW S, NEW T \in Seq(S), NEW K, InOrder(h, K), NEW a, NEW b, NEW c, Spelled(h, T, K, a, b, c)
    PROVE  EndsRight(h, T, K, a, c)
<1>0. Rep(h, K) /\ Nil \notin DOMAIN K
  BY DEF InOrder, Rep, Heap, Item, Nil
<1>1. /\ OneParent(Kin(K)) /\ DOMAIN Kin(K) = DOMAIN K
      /\ \A p \in DOMAIN K : Kin(K)[p] = {K[p][n] : n \in 1 .. Len(K[p])}
  BY <1>0, KinGraph
<1>2. ASSUME NEW p \in DOMAIN K, NEW n \in 1 .. Len(K[p])
      PROVE  EndOf(K, c, K[p][n]) = c[K[p][Len(K[p])]]
  <2> DEFINE j == K[p][n]
             q == CHOOSE x \in DOMAIN K : j \in Kin(K)[x]
  <2>1. j \in Kin(K)[p] /\ Placed(K, j)
    BY <1>1 DEF Placed
  <2>2. q \in DOMAIN K /\ j \in Kin(K)[q]
    BY <2>1
  <2>3. q = p
    BY <1>1, <2>1, <2>2 DEF OneParent
  <2>4. Len(K[p]) # 0
    <3>1. Len(K[p]) \in Nat
      BY <1>0, RepPlace
    <3> QED
      BY <3>1
  <2> HIDE DEF j
  <2>5. EndOf(K, c, j) = c[LastOf(K[q])]
    BY <2>1 DEF EndOf
  <2> HIDE DEF q
  <2>6. EndOf(K, c, j) = c[LastOf(K[p])]
    BY <2>3, <2>5
  <2> QED
    BY <2>4, <2>6 DEF j, LastOf
<1>3. ASSUME NEW j \in DOMAIN K
      PROVE  /\ EndOf(K, c, j) \in Nat /\ c[j] <= EndOf(K, c, j) /\ EndOf(K, c, j) <= Len(T)
             /\ \/ h[j].next = Nil /\ EndOf(K, c, j) = c[j]
                \/ /\ h[j].next \in DOMAIN K /\ h[j].next # Nil
                   /\ a[h[j].next] = c[j] + 1 /\ T[c[j] + 1] = ","
                   /\ EndOf(K, c, h[j].next) = EndOf(K, c, j)
  <2>1. c[j] \in Nat /\ c[j] <= Len(T)
    BY SpelledStep
  <2>2. CASE ~Placed(K, j)
    <3>1. h[j].next = Nil /\ EndOf(K, c, j) = c[j]
      BY <1>0, <2>2 DEF Rep, Linked, EndOf
    <3>2. c[j] <= c[j]
      BY <2>1
    <3> QED
      BY <2>1, <3>1, <3>2
  <2>3. CASE Placed(K, j)
    <3>1. PICK p \in DOMAIN K : \E n \in 1 .. Len(K[p]) : K[p][n] = j
      BY <2>3 DEF Placed
    <3>2. PICK n \in 1 .. Len(K[p]) : K[p][n] = j
      BY <3>1
    <3>3. /\ Len(K[p]) \in Nat /\ Len(K[p]) \in 1 .. Len(K[p])
          /\ \A m \in 1 .. Len(K[p]) : K[p][m] \in DOMAIN K
      <4>1. Len(K[p]) \in Nat /\ \A m \in 1 .. Len(K[p]) : K[p][m] \in DOMAIN K
        BY <1>0, RepPlace
      <4> QED
        BY <4>1
    <3>4. EndOf(K, c, j) = c[K[p][Len(K[p])]]
      BY <1>2, <3>2
    <3>5. c[j] <= EndOf(K, c, j)
      BY <3>2, <3>4, RowGrows
    <3>6. EndOf(K, c, j) \in Nat /\ EndOf(K, c, j) <= Len(T)
      <4>1. K[p][Len(K[p])] \in DOMAIN K
        BY <3>3
      <4> QED
        BY <3>4, <4>1, SpelledStep
    <3>7. h[j].next = NextOf(K[p], n)
      BY <1>0, <3>2 DEF Rep, Linked
    <3>8. CASE n = Len(K[p])
      BY <3>2, <3>4, <3>5, <3>6, <3>7, <3>8 DEF NextOf
    <3>9. CASE n # Len(K[p])
      <4>1. n + 1 \in 1 .. Len(K[p]) /\ n + 1 # 1 /\ (n + 1) - 1 = n /\ h[j].next = K[p][n + 1]
        BY <3>3, <3>7, <3>9 DEF NextOf
      <4>2. a[K[p][n + 1]] = c[K[p][n]] + 1 /\ T[c[K[p][n]] + 1] = ","
        <5>1. \A m \in 1 .. Len(K[p]) : m # 1 =>
                 a[K[p][m]] = c[K[p][m - 1]] + 1 /\ T[c[K[p][m - 1]] + 1] = ","
          BY DEF Spelled, Rowed
        <5>2. a[K[p][n + 1]] = c[K[p][(n + 1) - 1]] + 1 /\ T[c[K[p][(n + 1) - 1]] + 1] = ","
          BY <4>1, <5>1
        <5> QED
          BY <4>1, <5>2
      <4>3. EndOf(K, c, K[p][n + 1]) = c[K[p][Len(K[p])]]
        BY <1>2, <4>1
      <4> QED
        BY <1>0, <3>2, <3>3, <3>4, <3>5, <3>6, <4>1, <4>2, <4>3
    <3> QED
      BY <3>8, <3>9
  <2> QED
    BY <2>2, <2>3
<1> QED
  BY <1>2, <1>3 DEF EndsRight

LEMMA ValueCut ==
    ASSUME NEW h, NEW S, NEW T \in Seq(S), NEW K, InOrder(h, K), NEW a, NEW b, NEW c, Spelled(h, T, K, a, b, c),
           NEW j \in DOMAIN K, NEW inner,
           inner = IF h[j].child = Nil THEN <<>> ELSE Cut(T, a[h[j].child], EndOf(K, c, h[j].child))
    PROVE  ValueText(h, j, inner) = Cut(T, b[j], c[j])
<1>1. b[j] \in Nat /\ c[j] \in Nat /\ b[j] < c[j] /\ c[j] <= Len(T) /\ Len(T) \in Nat
      /\ Valued(h, T, K, j, b[j], c[j], c) /\ Rowed(T, K, j, a, b, c)
  BY SpelledStep, LenProperties DEF Spelled
<1>2. ASSUME c[j] = b[j] + 1 PROVE Cut(T, b[j], c[j]) = <<T[b[j] + 1]>>
  BY <1>1, <1>2, CutOne
<1>3. ASSUME Around(K, j, b[j], c[j], c)
      PROVE  <<T[b[j] + 1]>> \o inner \o <<T[c[j]]>> = Cut(T, b[j], c[j])
  <2>1. Len(K[j]) \in Nat /\ h[j].child = FirstOf(K[j])
        /\ (Len(K[j]) # 0 => /\ 1 \in 1 .. Len(K[j]) /\ Len(K[j]) \in 1 .. Len(K[j]) /\ FirstOf(K[j]) = K[j][1]
                             /\ LastOf(K[j]) = K[j][Len(K[j])] /\ FirstOf(K[j]) \in DOMAIN K
                             /\ LastOf(K[j]) \in DOMAIN K /\ Nil \notin DOMAIN K)
        /\ (Len(K[j]) = 0 => FirstOf(K[j]) = Nil)
    BY Ends
  <2>2. CASE Len(K[j]) = 0
    <3>1. c[j] = b[j] + 2 /\ inner = <<>> /\ b[j] + 2 <= Len(T)
      BY <1>1, <1>3, <2>1, <2>2 DEF Around
    <3>2. Cut(T, b[j], b[j] + 2) = <<T[b[j] + 1], T[b[j] + 2]>>
      BY <1>1, <3>1, CutTwo
    <3>3. \A x, y : <<x>> \o <<>> \o <<y>> = <<x, y>>
      BY TwoTokens
    <3> QED
      BY <3>1, <3>2, <3>3
  <2>3. CASE Len(K[j]) # 0
    <3> DEFINE f == K[j][1]
               e == EndOf(K, c, f)
               d == b[j] + 1
    <3>1. h[j].child = f /\ f \in DOMAIN K /\ f # Nil /\ inner = Cut(T, a[f], EndOf(K, c, f))
      BY <2>1, <2>3
    <3>2. EndOf(K, c, f) = c[K[j][Len(K[j])]]
      <4>1. \A p \in DOMAIN K : \A n \in 1 .. Len(K[p]) : EndOf(K, c, K[p][n]) = c[K[p][Len(K[p])]]
        <5>1. EndsRight(h, T, K, a, c)
          BY EndsOf
        <5> QED
          BY <5>1 DEF EndsRight
      <4> QED
        BY <2>1, <2>3, <4>1
    <3>3. c[j] = e + 1
      BY <1>3, <2>1, <2>3, <3>2 DEF Around
    <3>4. a[f] = d /\ 1 = 1
      BY <1>1, <2>1, <2>3 DEF Rowed
    <3>5. a[f] \in Nat /\ b[f] \in Nat /\ c[f] \in Nat /\ a[f] <= b[f] /\ b[f] < c[f] /\ c[f] <= e /\ e \in Nat
      <4>1. EndsRight(h, T, K, a, c)
        BY EndsOf
      <4> QED
        BY <3>1, <4>1, SpelledStep DEF EndsRight
    <3>6. inner = Cut(T, d, e)
      BY <3>1, <3>4
    <3> HIDE DEF e, f
    <3>7. d \in Nat /\ b[j] <= d /\ d <= e /\ e <= c[j] /\ d <= c[j] /\ d + 0 = b[j] + 1 /\ e + 1 = c[j]
          /\ e <= Len(T) /\ b[j] + 1 <= Len(T) /\ e + 1 <= Len(T) /\ b[j] <= e
      BY <1>1, <3>3, <3>4, <3>5
    <3>8. Cut(T, b[j], b[j] + 1) = <<T[b[j] + 1]>> /\ Cut(T, e, e + 1) = <<T[e + 1]>>
      BY <1>1, <3>5, <3>7, CutOne
    <3>9. Cut(T, b[j], d) \o Cut(T, d, e) = Cut(T, b[j], e)
      BY <1>1, <3>5, <3>7, CutJoin, ZenonT(30)
    <3>10. Cut(T, b[j], e) \o Cut(T, e, c[j]) = Cut(T, b[j], c[j])
      <4>1. b[j] \in Nat /\ e \in Nat /\ c[j] \in Nat /\ b[j] <= e /\ e <= c[j] /\ c[j] <= Len(T)
        BY <1>1, <3>5, <3>7
      <4> QED
        BY ONLY <4>1, T \in Seq(S), CutJoin
    <3> QED
      BY <3>3, <3>6, <3>8, <3>9, <3>10
  <2> QED
    BY <2>2, <2>3
<1>4. CASE h[j].type = "string" /\ c[j] = b[j] + 1 /\ T[b[j] + 1] = h[j].str
  BY <1>2, <1>4 DEF ValueText
<1>5. CASE h[j].type = "lit" /\ c[j] = b[j] + 1 /\ T[b[j] + 1] = "lit"
  BY <1>2, <1>5 DEF ValueText
<1>6. CASE h[j].type = "array" /\ T[b[j] + 1] = "[" /\ T[c[j]] = "]" /\ Around(K, j, b[j], c[j], c)
  BY <1>3, <1>6 DEF ValueText
<1>7. CASE h[j].type = "object" /\ T[b[j] + 1] = "{" /\ T[c[j]] = "}" /\ Around(K, j, b[j], c[j], c)
  BY <1>3, <1>7 DEF ValueText
<1> QED
  BY <1>1, <1>4, <1>5, <1>6, <1>7 DEF Valued

LEMMA TextOfTree ==
    ASSUME NEW h, NEW S, NEW T \in Seq(S), NEW K, InOrder(h, K), NEW a, NEW b, NEW c, Spelled(h, T, K, a, b, c),
           NEW r \in DOMAIN K
    PROVE  Text(h, r) = Cut(T, b[r], c[r])
<1> DEFINE part(j) == Cut(T, a[j], EndOf(K, c, j))
           g == [j \in Link |-> IF j \notin DOMAIN h THEN <<>> ELSE part(j)]
           Eq(f) == f = [j \in Link |->
                           IF j \notin DOMAIN h THEN <<>>
                           ELSE MemberText(h, j) \o ValueText(h, j, f[h[j].child]) \o CommaText(h, j) \o f[h[j].next]]
<1>0. /\ DOMAIN h = DOMAIN K /\ DOMAIN K \subseteq Link \ {Nil} /\ Nil \in Link /\ Rep(h, K)
      /\ \A j \in DOMAIN K : h[j].next \in DOMAIN K \cup {Nil} /\ h[j].child \in DOMAIN K \cup {Nil}
  BY DEF InOrder, Rep, Heap, Nil, Item, Link
<1>1. ASSUME NEW j \in DOMAIN K
      PROVE  /\ ValueText(h, j, g[h[j].child]) = Cut(T, b[j], c[j])
             /\ part(j) = MemberText(h, j) \o ValueText(h, j, g[h[j].child]) \o CommaText(h, j) \o g[h[j].next]
  <2>1. ValueText(h, j, g[h[j].child]) = Cut(T, b[j], c[j])
    <3>1. g[h[j].child] = IF h[j].child = Nil THEN <<>> ELSE part(h[j].child)
      BY <1>0
    <3> HIDE DEF g
    <3> QED
      BY <3>1, ValueCut
  <2>2. /\ a[j] \in Nat /\ b[j] \in Nat /\ c[j] \in Nat /\ a[j] <= b[j] /\ b[j] < c[j] /\ c[j] <= Len(T)
        /\ MemberText(h, j) = Cut(T, a[j], b[j]) /\ Len(T) \in Nat
    BY SpelledStep, LenProperties
  <2> DEFINE e == EndOf(K, c, j)
             nx == h[j].next
  <2>3. /\ e \in Nat /\ c[j] <= e /\ e <= Len(T)
        /\ \/ nx = Nil /\ e = c[j]
           \/ nx \in DOMAIN K /\ nx # Nil /\ a[nx] = c[j] + 1 /\ T[c[j] + 1] = "," /\ EndOf(K, c, nx) = e
    <3>1. \A i \in DOMAIN K :
             /\ EndOf(K, c, i) \in Nat /\ c[i] <= EndOf(K, c, i) /\ EndOf(K, c, i) <= Len(T)
             /\ \/ h[i].next = Nil /\ EndOf(K, c, i) = c[i]
                \/ /\ h[i].next \in DOMAIN K /\ h[i].next # Nil
                   /\ a[h[i].next] = c[i] + 1 /\ T[c[i] + 1] = ","
                   /\ EndOf(K, c, h[i].next) = EndOf(K, c, i)
      <4>1. EndsRight(h, T, K, a, c)
        BY EndsOf
      <4> QED
        BY <4>1 DEF EndsRight
    <3> QED
      BY <3>1
  <2>4. Cut(T, a[j], b[j]) \o Cut(T, b[j], c[j]) = Cut(T, a[j], c[j])
    <3>1. b[j] <= c[j]
      BY <2>2
    <3> QED
      BY <2>2, <3>1, CutJoin
  <2>5. CASE nx = Nil /\ e = c[j]
    <3>1. CommaText(h, j) = <<>> /\ g[nx] = <<>>
      BY <1>0, <2>5 DEF CommaText
    <3>2. Cut(T, a[j], c[j]) \o <<>> = Cut(T, a[j], c[j])
      <4>1. Cut(T, c[j], c[j]) = <<>>
        BY <2>2, CutNone
      <4>2. Cut(T, a[j], c[j]) \o Cut(T, c[j], c[j]) = Cut(T, a[j], c[j])
        <5>1. a[j] <= c[j] /\ c[j] <= c[j]
          BY <2>2
        <5> QED
          BY <2>2, <5>1, CutJoin
      <4> QED
        BY <4>1, <4>2
    <3> HIDE DEF g
    <3> QED
      BY <2>1, <2>2, <2>4, <2>5, <3>1, <3>2
  <2>6. CASE nx \in DOMAIN K /\ nx # Nil /\ a[nx] = c[j] + 1 /\ T[c[j] + 1] = "," /\ EndOf(K, c, nx) = e
    <3>1. a[nx] \in Nat /\ b[nx] \in Nat /\ a[nx] <= b[nx] /\ b[nx] < c[nx] /\ c[nx] <= e /\ c[nx] \in Nat
      <4>1. EndsRight(h, T, K, a, c)
        BY EndsOf
      <4> QED
        BY <2>6, <4>1, SpelledStep DEF EndsRight
    <3> DEFINE d == c[j] + 1
    <3>2. /\ d \in Nat /\ a[j] <= c[j] /\ c[j] <= d /\ d <= Len(T) /\ a[j] <= d /\ d <= e /\ c[j] + 1 <= Len(T)
      <4> DEFINE x == c[j]
                 y == a[j]
                 z == c[nx]
                 w == b[nx]
                 l == Len(T)
      <4>1. x \in Nat /\ y \in Nat /\ z \in Nat /\ w \in Nat /\ e \in Nat /\ l \in Nat
            /\ y <= b[j] /\ b[j] < x /\ b[j] \in Nat /\ d <= w /\ w < z /\ z <= e /\ e <= l
        BY <2>2, <2>3, <2>6, <3>1
      <4> HIDE DEF x, y, z, w, l, e
      <4>2. d \in Nat /\ y <= x /\ x <= d /\ d <= l /\ y <= d /\ d <= e
        BY <4>1 DEF x
      <4> QED
        BY <4>2 DEF x, y, l, e
    <3>3. CommaText(h, j) = Cut(T, c[j], d)
      BY <2>2, <2>6, <3>2, CutOne DEF CommaText
    <3>4. g[nx] = Cut(T, d, e)
      BY <1>0, <2>6
    <3> HIDE DEF d, g
    <3>5. Cut(T, a[j], c[j]) \o Cut(T, c[j], d) = Cut(T, a[j], d)
      BY <2>2, <3>2, CutJoin
    <3>6. Cut(T, a[j], d) \o Cut(T, d, e) = Cut(T, a[j], e)
      BY <2>2, <2>3, <3>2, CutJoin, ZenonT(30)
    <3> QED
      BY <2>1, <2>2, <2>4, <3>3, <3>4, <3>5, <3>6
  <2> QED
    BY <2>1, <2>3, <2>5, <2>6
<1>2. Eq(g)
  BY <1>0, <1>1
<1>3. Eq(Printed(h))
  BY <1>2 DEF Printed, Link
<1>4. Founded(Links(h))
  BY <1>0, LinksFounded DEF InOrder
<1> HIDE DEF g
<1>5. \A j \in Link : Printed(h)[j] = g[j]
  <2> DEFINE C == {j \in DOMAIN K : Printed(h)[j] # g[j]}
  <2>1. \A j \in Link \ DOMAIN K : Printed(h)[j] = g[j]
    BY <1>0, <1>2, <1>3
  <2> SUFFICES ASSUME C # {} PROVE FALSE
    BY <2>1
  <2>2. PICK x \in C : Links(h)[x] \cap C = {}
    <3>1. C \in SUBSET DOMAIN Links(h)
      BY <1>0 DEF Links
    <3> QED
      BY <1>4, <3>1 DEF Founded
  <2>3. Printed(h)[h[x].next] = g[h[x].next] /\ Printed(h)[h[x].child] = g[h[x].child]
    BY <1>0, <2>1, <2>2 DEF Links
  <2>4. \A f : Eq(f) => f[x] = MemberText(h, x) \o ValueText(h, x, f[h[x].child]) \o CommaText(h, x) \o f[h[x].next]
    BY <1>0
  <2> HIDE DEF Eq
  <2>5. Printed(h)[x] = g[x]
    BY <1>2, <1>3, <2>3, <2>4
  <2> QED
    BY <2>5
<1>6. Printed(h)[h[r].child] = g[h[r].child]
  BY <1>0, <1>5
<1> QED
  BY <1>1, <1>6, TextIs

-----------------------------------------------------------------------------
(* The same while the tree is being parsed: P tokens of T are consumed,    *)
(* the items N have their names and the items D their values.              *)
Laid(h, T, P, K, a, b, c, N, D) ==
    /\ a \in [DOMAIN K -> Nat] /\ b \in [DOMAIN K -> Nat] /\ c \in [DOMAIN K -> Nat]
    /\ D \in SUBSET N /\ N \in SUBSET DOMAIN K
    /\ \A j \in N : Named(h, T, j, a[j], b[j])
    /\ \A j \in D : Valued(h, T, K, j, b[j], c[j], c) /\ b[j] < c[j] /\ c[j] <= P
                    /\ \A n \in 1 .. Len(K[j]) : K[j][n] \in D
    /\ \A p \in DOMAIN K : Rowed(T, K, p, a, b, c)
                           /\ \A n \in 1 .. Len(K[p]) : n # Len(K[p]) => K[p][n] \in D

(* e says of the values of D and of the names of N what h says.            *)
Kept(e, h, D, N) == /\ \A j \in D : e[j].type = h[j].type /\ e[j].str = h[j].str
                    /\ \A j \in N : e[j].name = h[j].name
Agree(g, f, D) == \A j \in D : g[j] = f[j]
Childless(K, N) == \A j \in DOMAIN K \ N : K[j] = <<>>

LEMMA Indices == ASSUME NEW m \in Nat
                 PROVE  /\ m # 0 => m \in 1 .. m
                        /\ \A n \in 1 .. m : /\ n \in 1 .. m + 1 /\ n < m + 1
                                               /\ n # 1 => n - 1 \in 1 .. m /\ n - 1 # m
                        /\ m + 1 \in 1 .. m + 1 /\ ~(m + 1 < m + 1) /\ (m + 1) - 1 = m /\ (m # 0 => m + 1 # 1)
                        /\ \A n \in 1 .. m + 1 : n = m + 1 \/ n \in 1 .. m
  OBVIOUS

LEMMA NoRow == ASSUME NEW T, NEW K, NEW p, Len(K[p]) = 0, NEW a, NEW b, NEW c
               PROVE  Rowed(T, K, p, a, b, c) /\ \A n \in 1 .. Len(K[p]) : FALSE
  BY DEF Rowed

(* Where the member of a new element of p starts.                          *)
Follows(T, K, p, b, c, D, Q) ==
    \/ Len(K[p]) = 0 /\ Q = b[p] + 1
    \/ /\ Len(K[p]) # 0 /\ LastOf(K[p]) \in D
       /\ Q = c[LastOf(K[p])] + 1 /\ T[c[LastOf(K[p])] + 1] = ","

(* What each step of the parser leaves of it.                              *)
LEMMA LaidSame ==
    ASSUME NEW h, NEW T, NEW P \in Nat, NEW K, NEW g, InOrder(g, K),
           NEW a, NEW b, NEW c, NEW N, NEW D, Laid(h, T, P, K, a, b, c, N, D),
           NEW e, Kept(e, h, D, N), Childless(K, N), NEW Q \in Nat, P <= Q,
           NEW b2 \in [DOMAIN K -> Nat], Agree(b2, b, N), NEW c2 \in [DOMAIN K -> Nat], Agree(c2, c, D)
    PROVE  Laid(e, T, Q, K, a, b2, c2, N, D)
<1>0. D \subseteq N /\ N \subseteq DOMAIN K /\ a \in [DOMAIN K -> Nat]
  BY DEF Laid
<1>1. /\ \A j \in N : b2[j] = b[j] /\ e[j].name = h[j].name
      /\ \A j \in D : c2[j] = c[j] /\ e[j].type = h[j].type /\ e[j].str = h[j].str
      /\ \A j \in DOMAIN K : j \in N \/ K[j] = <<>>
  BY DEF Kept, Agree, Childless
<1>p. \A j \in DOMAIN K : Len(K[j]) \in Nat
  BY RepPlace DEF InOrder
<1>2. \A j \in N : Named(e, T, j, a[j], b2[j])
  BY <1>1, Zenon DEF Laid, Named
<1>3. ASSUME NEW j \in D
      PROVE  Valued(e, T, K, j, b2[j], c2[j], c2) /\ b2[j] < c2[j] /\ c2[j] <= Q
             /\ \A n \in 1 .. Len(K[j]) : K[j][n] \in D
  <2>1. Valued(h, T, K, j, b[j], c[j], c) /\ b[j] < c[j] /\ c[j] <= P
        /\ \A n \in 1 .. Len(K[j]) : K[j][n] \in D
    BY DEF Laid
  <2>2. b2[j] = b[j] /\ c2[j] = c[j] /\ c[j] \in Nat /\ b[j] \in Nat
    BY <1>0, <1>1 DEF Laid
  <2>3. Len(K[j]) # 0 => c2[LastOf(K[j])] = c[LastOf(K[j])]
    <3>2. Len(K[j]) # 0 => Len(K[j]) \in 1 .. Len(K[j])
      BY <1>0, <1>p
    <3> QED
      BY <1>1, <2>1, <3>2 DEF LastOf
  <2>4. Around(K, j, b[j], c[j], c) => Around(K, j, b2[j], c2[j], c2)
    BY <2>2, <2>3 DEF Around
  <2>5. Valued(e, T, K, j, b2[j], c2[j], c2)
    BY <1>1, <2>1, <2>2, <2>4 DEF Valued
  <2>6. c[j] <= Q
    BY <2>1, <2>2
  <2> QED
    BY <2>1, <2>2, <2>5, <2>6
<1>4. ASSUME NEW p \in DOMAIN K PROVE Rowed(T, K, p, a, b2, c2)
  <2>1. Rowed(T, K, p, a, b, c) /\ \A n \in 1 .. Len(K[p]) : n # Len(K[p]) => K[p][n] \in D
    BY DEF Laid
  <2>2. CASE K[p] = <<>>
    <3>1. Len(K[p]) = 0
      BY <2>2
    <3> QED
      BY <3>1, NoRow
  <2>3. CASE K[p] # <<>>
    <3>1. b2[p] = b[p]
      BY <1>1, <2>3
    <3>2. Len(K[p]) \in Nat
      BY <1>p
    <3>3. ASSUME NEW n \in 1 .. Len(K[p]), n # 1
          PROVE  a[K[p][n]] = c2[K[p][n - 1]] + 1 /\ T[c2[K[p][n - 1]] + 1] = ","
      <4>1. n - 1 \in 1 .. Len(K[p]) /\ n - 1 # Len(K[p])
        BY <3>2, <3>3
      <4>2. K[p][n - 1] \in D
        BY <2>1, <4>1
      <4>3. a[K[p][n]] = c[K[p][n - 1]] + 1 /\ T[c[K[p][n - 1]] + 1] = ","
        BY <2>1, <3>3 DEF Rowed
      <4> QED
        BY <1>1, <4>2, <4>3
    <3> QED
      BY <2>1, <3>1, <3>3 DEF Rowed
  <2> QED
    BY <2>2, <2>3
<1> QED
  BY <1>2, <1>3, <1>4 DEF Laid

LEMMA LaidName ==
    ASSUME NEW h, NEW T, NEW P, NEW K, NEW a, NEW b, NEW c, NEW N, NEW D, Laid(h, T, P, K, a, b, c, N, D),
           NEW t \in DOMAIN K, Named(h, T, t, a[t], b[t])
    PROVE  Laid(h, T, P, K, a, b, c, N \cup {t}, D)
<1>1. /\ D \in SUBSET (N \cup {t}) /\ N \cup {t} \in SUBSET DOMAIN K
      /\ \A j \in N \cup {t} : Named(h, T, j, a[j], b[j])
  BY DEF Laid
<1> QED
  BY <1>1 DEF Laid

LEMMA LaidValue ==
    ASSUME NEW h, NEW T, NEW P, NEW K, NEW a, NEW b, NEW c, NEW N, NEW D, Laid(h, T, P, K, a, b, c, N, D),
           NEW t \in N, Valued(h, T, K, t, b[t], c[t], c), b[t] < c[t], c[t] <= P,
           \A n \in 1 .. Len(K[t]) : K[t][n] \in D
    PROVE  Laid(h, T, P, K, a, b, c, N, D \cup {t})
<1> DEFINE E == D \cup {t}
<1>1. E \in SUBSET N
  BY DEF Laid
<1>2. ASSUME NEW j \in E
      PROVE  Valued(h, T, K, j, b[j], c[j], c) /\ b[j] < c[j] /\ c[j] <= P
             /\ \A n \in 1 .. Len(K[j]) : K[j][n] \in E
  BY DEF Laid
<1>3. \A p \in DOMAIN K : Rowed(T, K, p, a, b, c)
                          /\ \A n \in 1 .. Len(K[p]) : n # Len(K[p]) => K[p][n] \in E
  BY DEF Laid
<1> HIDE DEF E
<1>4. Laid(h, T, P, K, a, b, c, N, E)
  BY <1>1, <1>2, <1>3 DEF Laid
<1> QED
  BY <1>4 DEF E

LEMMA LaidOrder ==
    ASSUME NEW h, NEW S, NEW T \in Seq(S), NEW P \in Nat, P <= Len(T), NEW K, NEW a, NEW b, NEW c,
           Laid(h, T, P, K, a, b, c, DOMAIN K, DOMAIN K)
    PROVE  Spelled(h, T, K, a, b, c)
<1>1. \A j \in DOMAIN K : c[j] \in Nat /\ c[j] <= Len(T)
  <2>1. Len(T) \in Nat
    BY LenProperties
  <2>2. \A j \in DOMAIN K : c[j] \in Nat /\ c[j] <= P
    BY DEF Laid
  <2> QED
    BY <2>1, <2>2
<1> QED
  BY <1>1 DEF Laid, Spelled

(* A new element f of p, whose member starts at Q.                         *)
Put(g, K, L, f, v) == [j \in DOMAIN L |-> IF j = f THEN v ELSE g[j]]

LEMMA LaidElement ==
    ASSUME NEW h, NEW T, NEW P \in Nat, NEW K, NEW g, InOrder(g, K),
           NEW a, NEW b, NEW c, NEW N, NEW D, Laid(h, T, P, K, a, b, c, N, D),
           NEW L, NEW p \in DOMAIN K, NEW f, Grew(K, L, p, f), p \notin D,
           NEW e, Kept(e, h, DOMAIN K, DOMAIN K), NEW Q \in Nat, P <= Q,
           Follows(T, K, p, b, c, D, Q)
    PROVE  Laid(e, T, Q, L, Put(a, K, L, f, Q), Put(b, K, L, f, Q), Put(c, K, L, f, Q), N, D)
<1> DEFINE a2 == Put(a, K, L, f, Q)
           b2 == Put(b, K, L, f, Q)
           c2 == Put(c, K, L, f, Q)
<1>0. /\ D \subseteq N /\ N \subseteq DOMAIN K
      /\ a \in [DOMAIN K -> Nat] /\ b \in [DOMAIN K -> Nat] /\ c \in [DOMAIN K -> Nat]
      /\ \A q \in DOMAIN K : K[q] \in Seq(DOMAIN K) /\ Len(K[q]) \in Nat
      /\ \A q \in DOMAIN K : \A n \in 1 .. Len(K[q]) : K[q][n] \in DOMAIN K
  <2>1. /\ D \subseteq N /\ N \subseteq DOMAIN K
        /\ a \in [DOMAIN K -> Nat] /\ b \in [DOMAIN K -> Nat] /\ c \in [DOMAIN K -> Nat]
    BY DEF Laid
  <2>2. /\ \A q \in DOMAIN K : K[q] \in Seq(DOMAIN K) /\ Len(K[q]) \in Nat
        /\ \A q \in DOMAIN K : \A n \in 1 .. Len(K[q]) : K[q][n] \in DOMAIN K
    BY RepPlace DEF InOrder
  <2> QED
    BY <2>1, <2>2
<1>1. /\ DOMAIN L = DOMAIN K \cup {f} /\ f \notin DOMAIN K /\ L[f] = <<>>
      /\ Longer(L[p], K[p], Len(K[p]) + 1, f) /\ \A q \in DOMAIN K \ {p} : L[q] = K[q]
  BY DEF Grew
<1>2. a2 \in [DOMAIN L -> Nat] /\ b2 \in [DOMAIN L -> Nat] /\ c2 \in [DOMAIN L -> Nat]
      /\ \A j \in DOMAIN K : a2[j] = a[j] /\ b2[j] = b[j] /\ c2[j] = c[j]
      /\ a2[f] = Q /\ b2[f] = Q /\ c2[f] = Q
  BY <1>0, <1>1 DEF Put
<1> HIDE DEF a2, b2, c2
<1>3. /\ Len(L[p]) = Len(K[p]) + 1 /\ Len(L[p]) \in Nat
      /\ \A n \in 1 .. Len(K[p]) : L[p][n] = K[p][n]
      /\ L[p][Len(K[p]) + 1] = f
  <2>1. Len(L[p]) = Len(K[p]) + 1
        /\ \A m \in 1 .. Len(K[p]) + 1 :
              L[p][m] = IF m < Len(K[p]) + 1 THEN K[p][m] ELSE IF m = Len(K[p]) + 1 THEN f ELSE K[p][m - 1]
    BY <1>1 DEF Longer
  <2>2. \A n \in 1 .. Len(K[p]) : n \in 1 .. Len(K[p]) + 1 /\ n < Len(K[p]) + 1
    BY <1>0, Indices
  <2>3. Len(K[p]) + 1 \in 1 .. Len(K[p]) + 1 /\ ~(Len(K[p]) + 1 < Len(K[p]) + 1)
    BY <1>0, Indices
  <2>4. Len(K[p]) \in Nat
    BY <1>0
  <2>5. Len(L[p]) \in Nat
    BY ONLY <2>1, <2>4
  <2>6. \A n \in 1 .. Len(K[p]) : L[p][n] = K[p][n]
    BY ONLY <2>1, <2>2
  <2>7. L[p][Len(K[p]) + 1] = f
    BY ONLY <2>1, <2>3
  <2> QED
    BY <2>1, <2>5, <2>6, <2>7
<1>4. \A j \in N : Named(e, T, j, a2[j], b2[j])
  <2>1. \A j \in N : a2[j] = a[j] /\ b2[j] = b[j] /\ e[j].name = h[j].name /\ Named(h, T, j, a[j], b[j])
    BY <1>0, <1>2 DEF Laid, Kept
  <2> QED
    BY <2>1, Zenon DEF Named
<1>5. ASSUME NEW j \in D
      PROVE  Valued(e, T, L, j, b2[j], c2[j], c2) /\ b2[j] < c2[j] /\ c2[j] <= Q
             /\ \A n \in 1 .. Len(L[j]) : L[j][n] \in D
  <2>1. Valued(h, T, K, j, b[j], c[j], c) /\ b[j] < c[j] /\ c[j] <= P
        /\ \A n \in 1 .. Len(K[j]) : K[j][n] \in D
    BY DEF Laid
  <2>2. b2[j] = b[j] /\ c2[j] = c[j] /\ c[j] \in Nat /\ b[j] \in Nat /\ L[j] = K[j] /\ j \in DOMAIN K
    BY <1>0, <1>1, <1>2
  <2>3. Len(K[j]) # 0 => c2[LastOf(K[j])] = c[LastOf(K[j])]
    <3>2. Len(K[j]) # 0 => Len(K[j]) \in 1 .. Len(K[j])
      BY <1>0, <2>2, Indices
    <3>3. Len(K[j]) # 0 => LastOf(K[j]) \in DOMAIN K
      BY <1>0, <2>2, <3>2 DEF LastOf
    <3> QED
      BY <1>2, <3>3
  <2>4. Around(K, j, b[j], c[j], c) => Around(L, j, b2[j], c2[j], c2)
    BY <2>2, <2>3 DEF Around
  <2>5. e[j].type = h[j].type /\ e[j].str = h[j].str
    BY <2>2 DEF Kept
  <2>6. Valued(e, T, L, j, b2[j], c2[j], c2)
    BY <2>1, <2>2, <2>4, <2>5 DEF Valued
  <2>7. c[j] <= Q
    BY <2>1, <2>2
  <2> QED
    BY <2>1, <2>2, <2>6, <2>7
<1>6. ASSUME NEW q \in DOMAIN L
      PROVE  Rowed(T, L, q, a2, b2, c2) /\ \A n \in 1 .. Len(L[q]) : n # Len(L[q]) => L[q][n] \in D
  <2>1. CASE q = f
    <3>1. Len(L[q]) = 0
      BY <1>1, <2>1
    <3> QED
      BY <3>1, NoRow
  <2>2. CASE q # f
    <3>0. q \in DOMAIN K
      BY <1>1, <2>2
    <3>1. \A n \in 1 .. Len(K[q]) : IF n = 1 THEN a[K[q][1]] = b[q] + 1
                              ELSE a[K[q][n]] = c[K[q][n - 1]] + 1 /\ T[c[K[q][n - 1]] + 1] = ","
      BY <3>0 DEF Laid, Rowed
    <3>2. \A n \in 1 .. Len(K[q]) : n # Len(K[q]) => K[q][n] \in D
      BY <3>0 DEF Laid
    <3>3. \A n \in 1 .. Len(K[q]) : n # 1 => n - 1 \in 1 .. Len(K[q])
      BY <1>0, <3>0, Indices
    <3>4. \A n \in 1 .. Len(K[q]) : IF n = 1 THEN a2[K[q][1]] = b2[q] + 1
                              ELSE a2[K[q][n]] = c2[K[q][n - 1]] + 1 /\ T[c2[K[q][n - 1]] + 1] = ","
      BY <1>0, <1>2, <3>0, <3>1, <3>3
    <3>5. CASE q # p
      <4>1. L[q] = K[q]
        BY <1>1, <3>0, <3>5
      <4> QED
        BY <3>2, <3>4, <4>1 DEF Rowed
    <3>6. CASE q = p
      <4> DEFINE m == Len(K[p])
      <4>1. m \in Nat /\ (m # 0 => m \in 1 .. m) /\ \A n \in 1 .. m + 1 : n = m + 1 \/ n \in 1 .. m
        BY <1>0, Indices
      <4>2. ASSUME NEW n \in 1 .. m
            PROVE  IF n = 1 THEN a2[L[p][1]] = b2[p] + 1
                   ELSE a2[L[p][n]] = c2[L[p][n - 1]] + 1 /\ T[c2[L[p][n - 1]] + 1] = ","
        <5>1. L[p][n] = K[p][n] /\ (n # 1 => L[p][n - 1] = K[p][n - 1])
          BY <1>3, <3>3, <3>6
        <5>2. IF n = 1 THEN a2[K[p][1]] = b2[p] + 1
                       ELSE a2[K[p][n]] = c2[K[p][n - 1]] + 1 /\ T[c2[K[p][n - 1]] + 1] = ","
          BY <3>4, <3>6
        <5> QED
          BY <5>1, <5>2, Zenon
      <4>3. CASE m = 0 /\ Q = b[p] + 1
        <5>1. L[p][1] = f /\ Len(L[p]) = 1
          BY <1>3, <4>3
        <5>2. a2[L[p][1]] = b2[p] + 1
          BY <1>2, <4>3, <5>1
        <5>3. \A n \in 1 .. 1 : n = 1
          BY ONLY TRUE
        <5> QED
          BY <3>6, <5>1, <5>2, <5>3 DEF Rowed
      <4>4. CASE /\ m # 0 /\ LastOf(K[p]) \in D
                 /\ Q = c[LastOf(K[p])] + 1 /\ T[c[LastOf(K[p])] + 1] = ","
        <5>1. LastOf(K[p]) = K[p][m] /\ K[p][m] \in D /\ K[p][m] \in DOMAIN K
          BY <1>0, <4>1, <4>4 DEF LastOf
        <5>2. L[p][m] = K[p][m] /\ L[p][m + 1] = f /\ Len(L[p]) = m + 1 /\ (m + 1) - 1 = m /\ m + 1 # 1
          BY <1>3, <4>1, <4>4, Indices
        <5>3. a2[L[p][m + 1]] = c2[L[p][m]] + 1 /\ T[c2[L[p][m]] + 1] = ","
          BY <1>2, <4>4, <5>1, <5>2
        <5>4. \A n \in 1 .. Len(L[p]) : n # Len(L[p]) => L[p][n] \in D
          <6> SUFFICES ASSUME NEW n \in 1 .. m + 1, n # m + 1 PROVE L[p][n] \in D
            BY <5>2
          <6>1. n \in 1 .. m
            BY <4>1
          <6>2. L[p][n] = K[p][n]
            BY <1>3, <6>1
          <6> QED
            BY <3>2, <3>6, <5>1, <6>1, <6>2
        <5>5. \A n \in 1 .. m + 1 : IF n = 1 THEN a2[L[p][1]] = b2[p] + 1
                   ELSE a2[L[p][n]] = c2[L[p][n - 1]] + 1 /\ T[c2[L[p][n - 1]] + 1] = ","
          <6> SUFFICES ASSUME NEW n \in 1 .. m + 1
                       PROVE  IF n = 1 THEN a2[L[p][1]] = b2[p] + 1
                              ELSE a2[L[p][n]] = c2[L[p][n - 1]] + 1 /\ T[c2[L[p][n - 1]] + 1] = ","
            OBVIOUS
          <6>1. CASE n = m + 1
            BY <5>2, <5>3, <6>1
          <6>2. CASE n \in 1 .. m
            BY <4>2, <6>2
          <6> QED
            BY <4>1, <6>1, <6>2
        <5> QED
          BY <3>6, <5>2, <5>4, <5>5 DEF Rowed
      <4> QED
        BY <4>3, <4>4 DEF Follows
    <3> QED
      BY <3>5, <3>6
  <2> QED
    BY <2>1, <2>2
<1>7. N \in SUBSET DOMAIN L /\ D \in SUBSET N
  BY <1>0, <1>1
<1>8. Laid(e, T, Q, L, a2, b2, c2, N, D)
  BY <1>2, <1>4, <1>5, <1>6, <1>7 DEF Laid
<1> QED
  BY <1>8 DEF a2, b2, c2

-----------------------------------------------------------------------------
(* How far the parser is: p is where it goes on, P the tokens consumed.    *)
Scanning == {"value", "name", "colon", "first", "after"}
Items(st) == {st[k].item : k \in 1 .. Len(st)}
NamedBy(K, st, r, p) == IF p \in {"name", "colon"} THEN DOMAIN K \ {Awaits(st, r)} ELSE DOMAIN K
ValuedBy(K, st, r, p) == IF p \in Bare THEN DOMAIN K \ (Items(st) \cup {Awaits(st, r)}) ELSE DOMAIN K \ Items(st)

Opened(T, P, st, b) == \A k \in 1 .. Len(st) : T[b[st[k].item] + 1] = st[k].open /\ b[st[k].item] + 1 <= P

Stands(h, T, P, st, r, p, K, a, b, c) ==
    LET t == Awaits(st, r) IN
    /\ p \in Bare => t \in DOMAIN K /\ t \notin Items(st) /\ K[t] = <<>>
    /\ p = "value" => b[t] = P
    /\ p = "name" => a[t] = P /\ Len(st) # 0
    /\ p = "colon" => P = a[t] + 1 /\ T[P] = h[t].name /\ h[t].name # NoStr /\ Len(st) # 0
    /\ p = "first" => Len(st) # 0 /\ K[st[Len(st)].item] = <<>> /\ P = b[st[Len(st)].item] + 1
    /\ p = "after" => t \in DOMAIN K \ Items(st) /\ c[t] = P

Scanned(h, T, P, st, r, p, g, K, a, b, c) ==
    /\ Pending(h, g, K, st, r) /\ P \in Nat /\ P <= Len(T) /\ p \in Scanning
    /\ Laid(h, T, P, K, a, b, c, NamedBy(K, st, r, p), ValuedBy(K, st, r, p))
    /\ Opened(T, P, st, b) /\ h[r].name = NoStr /\ a[r] = 0
    /\ Stands(h, T, P, st, r, p, K, a, b, c)

LEMMA ScanFacts ==
    ASSUME NEW h, NEW T, NEW P, NEW st, NEW r, NEW p, NEW g, NEW K, NEW a, NEW b, NEW c,
           Scanned(h, T, P, st, r, p, g, K, a, b, c)
    PROVE  /\ InOrder(g, K) /\ Framed(K, st, r) /\ Heap(h) /\ DOMAIN h = DOMAIN K /\ r \in DOMAIN K
           /\ st \in Seq(Frame) /\ Len(st) \in Nat /\ Items(st) \subseteq DOMAIN K
           /\ a \in [DOMAIN K -> Nat] /\ b \in [DOMAIN K -> Nat] /\ c \in [DOMAIN K -> Nat]
           /\ Len(st) = 0 => Items(st) = {} /\ Awaits(st, r) = r
           /\ Len(st) # 0 => /\ r \in Items(st) /\ Len(st) \in 1 .. Len(st) /\ st[Len(st)].item \in DOMAIN K
                             /\ st[Len(st)].item \in Items(st)
                             /\ Awaits(st, r) = LastOf(K[st[Len(st)].item])
<1>1. InOrder(g, K) /\ Framed(K, st, r) /\ Heap(h) /\ DOMAIN h = DOMAIN K
  BY DEF Scanned, Pending, Unclosed, Alike, InOrder, Rep
<1>2. st \in Seq(Frame) /\ Len(st) \in Nat /\ r \in DOMAIN K
      /\ \A k \in 1 .. Len(st) : st[k].item \in DOMAIN K /\ st[k].cur = LastOf(K[st[k].item])
                                 /\ (k = 1 => st[k].item = r)
  BY <1>1, LenProperties DEF Framed
<1>3. Len(st) # 0 => Len(st) \in 1 .. Len(st) /\ 1 \in 1 .. Len(st)
  BY <1>2
<1>4. Len(st) = 0 => Items(st) = {} /\ Awaits(st, r) = r
  BY DEF Items, Awaits
<1>5. a \in [DOMAIN K -> Nat] /\ b \in [DOMAIN K -> Nat] /\ c \in [DOMAIN K -> Nat]
  BY DEF Scanned, Laid
<1>6. Len(st) # 0 => /\ r \in Items(st) /\ st[Len(st)].item \in Items(st)
                     /\ Awaits(st, r) = LastOf(K[st[Len(st)].item])
  BY <1>2, <1>3 DEF Items, Awaits
<1>7. Items(st) \subseteq DOMAIN K
  BY <1>2 DEF Items
<1> QED
  BY <1>1, <1>2, <1>3, <1>4, <1>5, <1>6, <1>7

(* A value that is no list.                                                *)
LEMMA ScanLeaf ==
    ASSUME NEW h, NEW T, NEW P, NEW st, NEW r, NEW g, NEW K, NEW a, NEW b, NEW c,
           Scanned(h, T, P, st, r, "value", g, K, a, b, c), P + 1 <= Len(T), NEW t, t = Awaits(st, r),
           NEW e, SameShape(e, h), Kept(e, h, DOMAIN K \ {t}, DOMAIN K),
           \/ e[t].type = "lit" /\ T[P + 1] = "lit"
           \/ e[t].type = "string" /\ T[P + 1] = e[t].str
    PROVE  Scanned(e, T, P + 1, st, r, "after", g, K, a, b, [c EXCEPT ![t] = P + 1])
<1> DEFINE O == Items(st)
           D == DOMAIN K \ (O \cup {t})
           N == DOMAIN K
           d == [c EXCEPT ![t] = P + 1]
           Q == P + 1
<1>1. /\ InOrder(g, K) /\ O \subseteq N /\ r \in N /\ b \in [DOMAIN K -> Nat] /\ c \in [DOMAIN K -> Nat]
  BY ScanFacts
<1>2. /\ Pending(h, g, K, st, r) /\ P \in Nat /\ Laid(h, T, P, K, a, b, c, N, D)
      /\ Opened(T, P, st, b) /\ h[r].name = NoStr /\ a[r] = 0
      /\ t \in DOMAIN K /\ t \notin O /\ K[t] = <<>> /\ b[t] = P
  BY DEF Scanned, NamedBy, ValuedBy, Bare, Stands
<1>3. d \in [DOMAIN K -> Nat] /\ Agree(d, c, D) /\ d[t] = Q /\ Q \in Nat /\ P <= Q /\ P < Q /\ Agree(b, b, N)
  BY <1>1, <1>2 DEF Agree
<1>4. Kept(e, h, D, N) /\ Childless(K, N) /\ e[r].name = NoStr
  BY <1>1, <1>2 DEF Kept, Childless
<1>5. Pending(e, g, K, st, r)
  BY <1>2, PendSame DEF SameShape
<1>6. Valued(e, T, K, t, b[t], d[t], d)
  BY <1>2, <1>3 DEF Valued
<1>7. Len(K[t]) = 0
  BY <1>2
<1>8. D \cup {t} = DOMAIN K \ O
  BY <1>2
<1>9. b[t] < d[t] /\ d[t] <= Q
  BY <1>2, <1>3
<1>s. \A k \in 1 .. Len(st) : b[st[k].item] \in Nat /\ st[k].item \in O
  BY <1>1 DEF Items
<1> HIDE DEF D, N, d, Q, O
<1>10. Laid(e, T, Q, K, a, b, d, N, D)
  BY <1>1, <1>2, <1>3, <1>4, LaidSame DEF N
<1>11. Laid(e, T, Q, K, a, b, d, N, D \cup {t})
  <2>1. t \in N
    BY <1>2 DEF N
  <2>2. \A n \in 1 .. Len(K[t]) : K[t][n] \in D
    BY <1>7
  <2> QED
    BY <1>6, <1>9, <1>10, <2>1, <2>2, LaidValue
<1>12. Opened(T, Q, st, b)
  BY <1>2, <1>3, <1>s DEF Opened
<1>13. Stands(e, T, Q, st, r, "after", K, a, b, d)
  BY <1>2, <1>3 DEF Stands, Bare, O, N
<1>14. Laid(e, T, Q, K, a, b, d, NamedBy(K, st, r, "after"), ValuedBy(K, st, r, "after"))
  BY <1>8, <1>11 DEF NamedBy, ValuedBy, Bare, N, O
<1>15. Scanned(e, T, Q, st, r, "after", g, K, a, b, d)
  BY <1>2, <1>3, <1>4, <1>5, <1>12, <1>13, <1>14 DEF Scanned, Scanning, Q
<1> QED
  BY <1>15 DEF Q, d

(* The bracket that opens a list.                                          *)
LEMMA ScanOpen ==
    ASSUME NEW h, NEW T, NEW P, NEW st, NEW r, NEW g, NEW K, NEW a, NEW b, NEW c,
           Scanned(h, T, P, st, r, "value", g, K, a, b, c), P + 1 <= Len(T), NEW t, t = Awaits(st, r),
           NEW o \in Opening, T[P + 1] = o,
           NEW f, f = [item |-> t, open |-> o, head |-> Nil, cur |-> Nil]
    PROVE  Scanned(h, T, P + 1, Append(st, f), r, "first", g, K, a, b, c)
<1> DEFINE O == Items(st)
           D == DOMAIN K \ (O \cup {t})
           N == DOMAIN K
           Q == P + 1
           s2 == Append(st, f)
<1>1. /\ InOrder(g, K) /\ O \subseteq N /\ r \in N /\ b \in [DOMAIN K -> Nat] /\ c \in [DOMAIN K -> Nat]
      /\ st \in Seq(Frame) /\ Len(st) \in Nat
  BY ScanFacts
<1>2. /\ Pending(h, g, K, st, r) /\ P \in Nat /\ Laid(h, T, P, K, a, b, c, N, D)
      /\ Opened(T, P, st, b) /\ h[r].name = NoStr /\ a[r] = 0
      /\ t \in DOMAIN K /\ t \notin O /\ K[t] = <<>> /\ b[t] = P
  BY DEF Scanned, NamedBy, ValuedBy, Bare, Stands
<1>3. Pending(h, g, K, s2, r)
  BY <1>2, PendOpen
<1>4. /\ Kept(h, h, D, N) /\ Childless(K, N) /\ Agree(b, b, N) /\ Agree(c, c, D)
      /\ Q \in Nat /\ P <= Q /\ b[t] + 1 = Q /\ Q <= Q
  BY <1>2 DEF Kept, Childless, Agree
<1>5. /\ Len(s2) = Len(st) + 1 /\ s2[Len(st) + 1] = f /\ \A k \in 1 .. Len(st) : s2[k] = st[k]
      /\ Len(s2) # 0 /\ f.item = t /\ f.open = o /\ f.cur = Nil
      /\ \A k \in 1 .. Len(s2) : k = Len(st) + 1 \/ k \in 1 .. Len(st)
      /\ \A k \in 1 .. Len(st) : k \in 1 .. Len(s2)
      /\ Len(st) + 1 \in 1 .. Len(s2)
  <2>1. t \in Item
    BY <1>2 DEF Pending, InOrder, Rep, Heap
  <2>2. f \in Frame
    BY <2>1 DEF Frame, Link
  <2>3. Len(s2) = Len(st) + 1 /\ s2[Len(st) + 1] = f /\ \A k \in 1 .. Len(st) : s2[k] = st[k]
    BY <1>1, <2>2, AppendProperties
  <2>4. Len(s2) # 0 /\ Len(st) + 1 \in 1 .. Len(s2) /\ \A k \in 1 .. Len(s2) : k = Len(st) + 1 \/ k \in 1 .. Len(st)
    BY <1>1, <2>3
  <2>5. \A k \in 1 .. Len(st) : k \in 1 .. Len(s2)
    BY <1>1, <2>3
  <2> QED
    BY <2>3, <2>4, <2>5
<1>s. \A k \in 1 .. Len(st) : b[st[k].item] \in Nat /\ st[k].item \in O
  BY <1>1 DEF Items
<1>6. Items(s2) = O \cup {t}
  <2>1. \A k \in 1 .. Len(s2) : s2[k].item \in O \cup {t}
    BY <1>5 DEF Items
  <2>2. t \in Items(s2)
    BY <1>5 DEF Items
  <2>3. \A k \in 1 .. Len(st) : st[k].item \in Items(s2)
    BY <1>5 DEF Items
  <2>4. O \subseteq Items(s2)
    BY <2>3 DEF Items
  <2>5. Items(s2) \subseteq O \cup {t}
    BY <2>1 DEF Items
  <2> QED
    BY <2>2, <2>4, <2>5
<1> HIDE DEF D, N, Q, O, s2
<1>7. Laid(h, T, Q, K, a, b, c, N, D)
  BY <1>1, <1>2, <1>4, LaidSame DEF N
<1>8. Opened(T, Q, s2, b)
  <2> SUFFICES ASSUME NEW k \in 1 .. Len(s2) PROVE T[b[s2[k].item] + 1] = s2[k].open /\ b[s2[k].item] + 1 <= Q
    BY DEF Opened
  <2>1. CASE k = Len(st) + 1
    BY <1>4, <1>5, <2>1 DEF Q
  <2>2. CASE k \in 1 .. Len(st)
    <3>1. T[b[st[k].item] + 1] = st[k].open /\ b[st[k].item] + 1 <= P /\ b[st[k].item] \in Nat
      BY <1>2, <1>s, <2>2 DEF Opened
    <3>2. b[st[k].item] + 1 <= Q
      BY <1>2, <1>4, <3>1
    <3> QED
      BY <1>5, <2>2, <3>1, <3>2
  <2> QED
    BY <1>5, <2>1, <2>2
<1>9. Stands(h, T, Q, s2, r, "first", K, a, b, c)
  BY <1>2, <1>4, <1>5 DEF Stands, Bare
<1>10. Laid(h, T, Q, K, a, b, c, NamedBy(K, s2, r, "first"), ValuedBy(K, s2, r, "first"))
  BY <1>6, <1>7 DEF NamedBy, ValuedBy, Bare, N, D
<1>11. Scanned(h, T, Q, s2, r, "first", g, K, a, b, c)
  BY <1>2, <1>3, <1>4, <1>8, <1>9, <1>10 DEF Scanned, Scanning, Q
<1> QED
  BY <1>11 DEF Q, s2

(* The name of a member.                                                   *)
LEMMA ScanName ==
    ASSUME NEW h, NEW T, NEW P, NEW st, NEW r, NEW g, NEW K, NEW a, NEW b, NEW c,
           Scanned(h, T, P, st, r, "name", g, K, a, b, c), P + 1 <= Len(T), NEW t, t = Awaits(st, r),
           NEW e, SameShape(e, h), Kept(e, h, DOMAIN K, DOMAIN K \ {t}), e[t].name = T[P + 1], T[P + 1] # NoStr
    PROVE  Scanned(e, T, P + 1, st, r, "colon", g, K, a, b, c)
<1> DEFINE O == Items(st)
           D == DOMAIN K \ (O \cup {t})
           N == DOMAIN K \ {t}
           Q == P + 1
<1>1. /\ InOrder(g, K) /\ O \subseteq DOMAIN K /\ r \in DOMAIN K
      /\ b \in [DOMAIN K -> Nat] /\ c \in [DOMAIN K -> Nat]
      /\ Len(st) # 0 => r \in O
  BY ScanFacts
<1>2. /\ Pending(h, g, K, st, r) /\ P \in Nat /\ Laid(h, T, P, K, a, b, c, N, D)
      /\ Opened(T, P, st, b) /\ h[r].name = NoStr /\ a[r] = 0
      /\ t \in DOMAIN K /\ t \notin O /\ K[t] = <<>> /\ a[t] = P /\ Len(st) # 0
  BY DEF Scanned, NamedBy, ValuedBy, Bare, Stands
<1>3. Pending(e, g, K, st, r)
  BY <1>2, PendSame DEF SameShape
<1>4. /\ Kept(e, h, D, N) /\ Childless(K, N) /\ Agree(b, b, N) /\ Agree(c, c, D) /\ Q \in Nat /\ P <= Q
      /\ e[r].name = NoStr
  BY <1>1, <1>2 DEF Kept, Childless, Agree
<1>s. \A k \in 1 .. Len(st) : b[st[k].item] \in Nat /\ st[k].item \in O
  BY <1>1 DEF Items
<1> HIDE DEF D, N, Q, O
<1>5. Laid(e, T, Q, K, a, b, c, N, D)
  BY <1>1, <1>2, <1>4, LaidSame
<1>6. Opened(T, Q, st, b)
  BY <1>2, <1>4, <1>s DEF Opened
<1>7. Stands(e, T, Q, st, r, "colon", K, a, b, c)
  BY <1>2, <1>4 DEF Stands, Bare, O, Q
<1>8. Laid(e, T, Q, K, a, b, c, NamedBy(K, st, r, "colon"), ValuedBy(K, st, r, "colon"))
  BY <1>5 DEF NamedBy, ValuedBy, Bare, N, D, O
<1>9. Scanned(e, T, Q, st, r, "colon", g, K, a, b, c)
  BY <1>2, <1>3, <1>4, <1>6, <1>7, <1>8 DEF Scanned, Scanning, Q
<1> QED
  BY <1>9 DEF Q

(* The colon after it.                                                     *)
LEMMA ScanColon ==
    ASSUME NEW h, NEW T, NEW P, NEW st, NEW r, NEW g, NEW K, NEW a, NEW b, NEW c,
           Scanned(h, T, P, st, r, "colon", g, K, a, b, c), P + 1 <= Len(T), NEW t, t = Awaits(st, r), T[P + 1] = ":"
    PROVE  Scanned(h, T, P + 1, st, r, "value", g, K, a, [b EXCEPT ![t] = P + 1], c)
<1> DEFINE O == Items(st)
           D == DOMAIN K \ (O \cup {t})
           N == DOMAIN K \ {t}
           Q == P + 1
           d == [b EXCEPT ![t] = P + 1]
<1>1. /\ InOrder(g, K) /\ O \subseteq DOMAIN K /\ r \in DOMAIN K
      /\ a \in [DOMAIN K -> Nat] /\ b \in [DOMAIN K -> Nat] /\ c \in [DOMAIN K -> Nat]
  BY ScanFacts
<1>2. /\ Pending(h, g, K, st, r) /\ P \in Nat /\ Laid(h, T, P, K, a, b, c, N, D)
      /\ Opened(T, P, st, b) /\ h[r].name = NoStr /\ a[r] = 0
      /\ t \in DOMAIN K /\ t \notin O /\ K[t] = <<>>
      /\ P = a[t] + 1 /\ T[P] = h[t].name /\ h[t].name # NoStr
  BY DEF Scanned, NamedBy, ValuedBy, Bare, Stands
<1>3. /\ Kept(h, h, D, N) /\ Childless(K, N) /\ Agree(d, b, N) /\ d \in [DOMAIN K -> Nat] /\ Agree(c, c, D)
      /\ Q \in Nat /\ P <= Q /\ d[t] = Q
  BY <1>1, <1>2 DEF Kept, Childless, Agree
<1>s. \A k \in 1 .. Len(st) : b[st[k].item] \in Nat /\ d[st[k].item] = b[st[k].item] /\ st[k].item \in O
  BY <1>1, <1>2 DEF Items
<1>4. N \cup {t} = DOMAIN K
  BY <1>2
<1> HIDE DEF D, N, Q, O, d
<1>5. Laid(h, T, Q, K, a, d, c, N, D)
  BY <1>1, <1>2, <1>3, LaidSame
<1>6. Named(h, T, t, a[t], d[t])
  <2>1. a[t] \in Nat
    BY <1>1, <1>2
  <2>2. d[t] = a[t] + 2 /\ a[t] + 2 = P + 1
    BY <1>2, <1>3, <2>1 DEF Q
  <2> QED
    BY <1>2, <2>2 DEF Named
<1>7. Laid(h, T, Q, K, a, d, c, DOMAIN K, D)
  <2>1. Laid(h, T, Q, K, a, d, c, N \cup {t}, D)
    BY <1>2, <1>5, <1>6, LaidName
  <2> QED
    BY <1>4, <2>1
<1>8. Opened(T, Q, st, d)
  BY <1>2, <1>3, <1>s DEF Opened
<1>9. Stands(h, T, Q, st, r, "value", K, a, d, c)
  BY <1>2, <1>3 DEF Stands, Bare, O
<1>10. Laid(h, T, Q, K, a, d, c, NamedBy(K, st, r, "value"), ValuedBy(K, st, r, "value"))
  BY <1>7 DEF NamedBy, ValuedBy, Bare, D, O
<1>11. Scanned(h, T, Q, st, r, "value", g, K, a, d, c)
  BY <1>2, <1>3, <1>8, <1>9, <1>10 DEF Scanned, Scanning, Q
<1> QED
  BY <1>11 DEF Q, d

(* What closes a list, and what goes on with one.                          *)
Shuts(T, P, top) == T[P + 1] = IF top.open = "[" THEN "]" ELSE "}"
ListType(top) == IF top.open = "[" THEN "array" ELSE "object"
GoesOn(T, P, p, Q) == \/ p = "first" /\ Q = P
                      \/ p = "after" /\ Q = P + 1 /\ Q <= Len(T) /\ T[P + 1] = ","
Continuing(p) == p \in {"first", "after"}
Expects(top) == IF top.open = "[" THEN "value" ELSE "name"

(* The bracket that closes one.                                            *)
LEMMA ScanClose ==
    ASSUME NEW h, NEW T, NEW P, NEW st, NEW r, NEW p, Continuing(p), NEW g, NEW K, NEW a, NEW b, NEW c,
           Scanned(h, T, P, st, r, p, g, K, a, b, c), P + 1 <= Len(T), Len(st) # 0,
           NEW top, top = st[Len(st)], Shuts(T, P, top),
           NEW s2, Popped(s2, st), NEW e, Pending(e, g, K, s2, r), NEW i, i = top.item,
           Kept(e, h, DOMAIN K \ {i}, DOMAIN K), e[i].type = ListType(top)
    PROVE  Scanned(e, T, P + 1, s2, r, "after", g, K, a, b, [c EXCEPT ![i] = P + 1])
<1> DEFINE O == Items(st)
           D == DOMAIN K \ O
           N == DOMAIN K
           Q == P + 1
           d == [c EXCEPT ![i] = P + 1]
<1>1. /\ InOrder(g, K) /\ O \subseteq N /\ r \in N /\ b \in [DOMAIN K -> Nat] /\ c \in [DOMAIN K -> Nat]
      /\ st \in Seq(Frame) /\ Len(st) \in Nat /\ Framed(K, st, r) /\ i \in DOMAIN K /\ i \in O
      /\ Len(st) \in 1 .. Len(st) /\ Awaits(st, r) = LastOf(K[i])
  BY ScanFacts
<1>2. /\ P \in Nat /\ Laid(h, T, P, K, a, b, c, N, D)
      /\ Opened(T, P, st, b) /\ h[r].name = NoStr /\ a[r] = 0
      /\ p = "first" => K[i] = <<>> /\ P = b[i] + 1
      /\ p = "after" => LastOf(K[i]) \in D /\ c[LastOf(K[i])] = P
  <2>1. p \notin Bare /\ p \notin {"name", "colon"}
    BY DEF Bare, Continuing
  <2> QED
    BY <1>1, <2>1 DEF Scanned, NamedBy, ValuedBy, Stands
<1>3. /\ d \in [DOMAIN K -> Nat] /\ Agree(d, c, D) /\ d[i] = Q /\ Q \in Nat
      /\ P <= Q /\ P < Q /\ Agree(b, b, N) /\ Q <= Q
      /\ b[i] \in Nat
  BY <1>1, <1>2 DEF Agree
<1>4. Kept(e, h, D, N) /\ Childless(K, N) /\ e[r].name = NoStr
  BY <1>1, <1>2 DEF Kept, Childless
<1>5. top.open \in Opening /\ T[b[i] + 1] = top.open /\ b[i] + 1 <= P
  <2>1. top \in Frame
    BY <1>1, ElementOfSeq
  <2> QED
    BY <1>1, <1>2, <2>1 DEF Opened, Frame
<1>6. Len(K[i]) = 0 \/ (p = "after" /\ Len(K[i]) # 0 /\ Len(K[i]) \in 1 .. Len(K[i]) /\ LastOf(K[i]) = K[i][Len(K[i])])
  <2>1. CASE p = "first"
    <3>1. K[i] = <<>>
      BY <1>2, <2>1
    <3>2. Len(K[i]) = 0
      BY <3>1
    <3> QED
      BY <3>2
  <2>2. CASE p = "after"
    BY <1>1, <2>2, Ends
  <2> QED
    BY <2>1, <2>2 DEF Continuing
<1>p. Len(K[i]) = 0 => p = "first"
  <2>1. LastOf(K[i]) \in D => LastOf(K[i]) # Nil
    BY <1>1 DEF InOrder, Rep, Heap, Item, Nil
  <2> QED
    BY <1>2, <2>1 DEF LastOf, Continuing
<1>7. Around(K, i, b[i], d[i], d)
  <2>1. CASE Len(K[i]) = 0
    <3>1. d[i] = b[i] + 2
      BY <1>p, <1>2, <1>3, <2>1 DEF Q
    <3> QED
      BY <2>1, <3>1 DEF Around
  <2>2. CASE Len(K[i]) # 0
    <3>1. d[LastOf(K[i])] = P
      BY <1>2, <1>3, <1>6, <2>2 DEF Agree
    <3> QED
      BY <1>3, <2>2, <3>1 DEF Around, Q
  <2> QED
    BY <2>1, <2>2
<1>8. Valued(e, T, K, i, b[i], d[i], d)
  <2>1. T[d[i]] = IF top.open = "[" THEN "]" ELSE "}"
    BY <1>3 DEF Q, Shuts
  <2>2. CASE top.open = "["
    BY <1>5, <1>7, <2>1, <2>2 DEF Valued, ListType
  <2>3. CASE top.open = "{"
    BY <1>5, <1>7, <2>1, <2>3 DEF Valued, ListType
  <2> QED
    BY <1>5, <2>2, <2>3 DEF Opening
<1>9. b[i] < d[i] /\ d[i] <= Q
  BY <1>2, <1>3, <1>5
<1>10. \A n \in 1 .. Len(K[i]) : K[i][n] \in D
  <2>1. \A n \in 1 .. Len(K[i]) : n # Len(K[i]) => K[i][n] \in D
    BY <1>1, <1>2 DEF Laid
  <2>2. Len(K[i]) # 0 => K[i][Len(K[i])] \in D
    BY <1>2, <1>6
  <2>3. Len(K[i]) = 0 => \A n \in 1 .. Len(K[i]) : FALSE
    OBVIOUS
  <2> QED
    BY <2>1, <2>2, <2>3
<1>11. D \cup {i} = DOMAIN K \ Items(s2)
  <2>1. Len(s2) = Len(st) - 1 /\ \A k \in 1 .. Len(st) - 1 : s2[k] = st[k]
    BY DEF Popped
  <2>2. \A k \in 1 .. Len(st) - 1 : k \in 1 .. Len(st) /\ k < Len(st) /\ k \in 1 .. Len(s2)
    BY <1>1, <2>1
  <2>3. \A k \in 1 .. Len(st) : k = Len(st) \/ k \in 1 .. Len(st) - 1
    BY <1>1
  <2>4. \A k \in 1 .. Len(st) - 1 : st[k].item # i
    BY <1>1, <2>2, FramesApart
  <2>5. i \notin Items(s2)
    <3>1. \A k \in 1 .. Len(s2) : s2[k].item # i
      BY <2>1, <2>4
    <3> QED
      BY <3>1 DEF Items
  <2>6. Items(s2) \subseteq O
    <3>1. \A k \in 1 .. Len(s2) : s2[k].item \in O
      BY <2>1, <2>2 DEF Items
    <3> QED
      BY <3>1 DEF Items
  <2>7. O \subseteq Items(s2) \cup {i}
    <3>1. \A k \in 1 .. Len(st) : st[k].item \in Items(s2) \cup {i}
      <4> SUFFICES ASSUME NEW k \in 1 .. Len(st) PROVE st[k].item \in Items(s2) \cup {i}
        OBVIOUS
      <4>1. CASE k = Len(st)
        BY <4>1
      <4>2. CASE k \in 1 .. Len(st) - 1
        <5>1. k \in 1 .. Len(s2) /\ s2[k].item = st[k].item
          BY <2>1, <2>2, <4>2
        <5> QED
          BY <5>1 DEF Items
      <4> QED
        BY <2>3, <4>1, <4>2
    <3> QED
      BY <3>1 DEF Items
  <2> QED
    BY <1>1, <2>5, <2>6, <2>7
<1>12. Awaits(s2, r) = i
  <2>1. Len(s2) = Len(st) - 1 /\ \A k \in 1 .. Len(st) - 1 : s2[k] = st[k]
    BY DEF Popped
  <2>2. i = IF Len(st) = 1 THEN r ELSE st[Len(st) - 1].cur
    BY <1>1 DEF Framed
  <2>3. CASE Len(st) = 1
    <3>1. Len(s2) = 0
      BY <2>1, <2>3
    <3> QED
      BY <2>2, <2>3, <3>1 DEF Awaits
  <2>4. CASE Len(st) # 1
    <3>1. Len(s2) # 0 /\ Len(s2) = Len(st) - 1 /\ Len(st) - 1 \in 1 .. Len(st) - 1
      BY <1>1, <2>1, <2>4
    <3>2. s2[Len(s2)] = st[Len(st) - 1]
      BY <2>1, <3>1
    <3> QED
      BY <2>2, <2>4, <3>1, <3>2 DEF Awaits
  <2> QED
    BY <2>3, <2>4
<1>13. Opened(T, Q, s2, b)
  <2> SUFFICES ASSUME NEW k \in 1 .. Len(s2) PROVE T[b[s2[k].item] + 1] = s2[k].open /\ b[s2[k].item] + 1 <= Q
    BY DEF Opened
  <2>1. k \in 1 .. Len(st) /\ s2[k] = st[k]
    <3>1. Len(s2) = Len(st) - 1 /\ \A m \in 1 .. Len(st) - 1 : s2[m] = st[m]
      BY DEF Popped
    <3>2. k \in 1 .. Len(st) - 1
      BY <3>1
    <3> QED
      BY <1>1, <3>1, <3>2
  <2>2. T[b[st[k].item] + 1] = st[k].open /\ b[st[k].item] + 1 <= P /\ st[k].item \in O
    BY <1>2, <2>1 DEF Opened, Items
  <2>3. b[st[k].item] \in Nat
    BY <1>1, <2>2
  <2>4. b[st[k].item] + 1 <= Q
    BY <1>2, <1>3, <2>2, <2>3
  <2> QED
    BY <2>1, <2>2, <2>4
<1> HIDE DEF D, N, d, Q, O
<1>14. Laid(e, T, Q, K, a, b, d, N, D)
  BY <1>1, <1>2, <1>3, <1>4, LaidSame DEF N
<1>15. Laid(e, T, Q, K, a, b, d, N, D \cup {i})
  <2>1. i \in N
    BY <1>1 DEF N
  <2> QED
    BY <1>8, <1>9, <1>10, <1>14, <2>1, LaidValue
<1>16. Stands(e, T, Q, s2, r, "after", K, a, b, d)
  <2>1. i \in DOMAIN K \ Items(s2)
    BY <1>11
  <2> QED
    BY <1>3, <1>12, <2>1 DEF Stands, Bare
<1>17. Laid(e, T, Q, K, a, b, d, NamedBy(K, s2, r, "after"), ValuedBy(K, s2, r, "after"))
  BY <1>11, <1>15 DEF NamedBy, ValuedBy, Bare, N
<1>18. Scanned(e, T, Q, s2, r, "after", g, K, a, b, d)
  BY <1>2, <1>3, <1>4, <1>13, <1>16, <1>17 DEF Scanned, Scanning, Q
<1> QED
  BY <1>18 DEF Q, d

(* The next element of a list.                                             *)
LEMMA ScanElement ==
    ASSUME NEW h, NEW T, NEW P, NEW st, NEW r, NEW p, Continuing(p), NEW g, NEW K, NEW a, NEW b, NEW c,
           Scanned(h, T, P, st, r, p, g, K, a, b, c), Len(st) # 0,
           NEW Q, GoesOn(T, P, p, Q),
           NEW top, top = st[Len(st)], NEW f, NEW s2, Extended(h, st, s2, f),
           NEW x, NEW L, Grew(K, L, top.item, f), NEW e, Pending(e, x, L, s2, r),
           Kept(e, h, DOMAIN K, DOMAIN K), e[f].name = NoStr,
           NEW q, q = Expects(top)
    PROVE  Scanned(e, T, Q, s2, r, q, x, L, Put(a, K, L, f, Q), Put(b, K, L, f, Q), Put(c, K, L, f, Q))
<1> DEFINE O == Items(st)
           D == DOMAIN K \ O
           N == DOMAIN K
           i == top.item
           a2 == Put(a, K, L, f, Q)
           b2 == Put(b, K, L, f, Q)
           c2 == Put(c, K, L, f, Q)
<1>1. /\ InOrder(g, K) /\ O \subseteq N /\ r \in N /\ Framed(K, st, r) /\ i \in DOMAIN K /\ i \in O
      /\ a \in [DOMAIN K -> Nat] /\ b \in [DOMAIN K -> Nat] /\ c \in [DOMAIN K -> Nat]
      /\ st \in Seq(Frame) /\ Len(st) \in Nat
      /\ Len(st) \in 1 .. Len(st) /\ Awaits(st, r) = LastOf(K[i])
  BY ScanFacts
<1>2. /\ P \in Nat /\ P <= Len(T) /\ Laid(h, T, P, K, a, b, c, N, D)
      /\ Opened(T, P, st, b) /\ h[r].name = NoStr /\ a[r] = 0
      /\ p = "first" => K[i] = <<>> /\ P = b[i] + 1
      /\ p = "after" => LastOf(K[i]) \in D /\ c[LastOf(K[i])] = P
  <2>1. p \notin Bare /\ p \notin {"name", "colon"}
    BY DEF Bare, Continuing
  <2> QED
    BY <1>1, <2>1 DEF Scanned, NamedBy, ValuedBy, Stands
<1>3. Q \in Nat /\ P <= Q /\ Q <= Len(T)
  <2>1. CASE Q = P
    BY <1>2, <2>1
  <2>2. CASE Q = P + 1 /\ Q <= Len(T)
    BY <1>2, <2>2
  <2> QED
    BY <1>2, <2>1, <2>2 DEF GoesOn
<1>4. Follows(T, K, i, b, c, D, Q)
  <2>1. CASE p = "first"
    <3>1. K[i] = <<>> /\ Q = b[i] + 1
      BY <1>2, <2>1 DEF GoesOn
    <3>2. Len(K[i]) = 0
      BY <3>1
    <3> QED
      BY <3>1, <3>2 DEF Follows
  <2>2. CASE p = "after"
    <3>1. LastOf(K[i]) \in D /\ c[LastOf(K[i])] = P /\ Q = P + 1 /\ T[P + 1] = ","
      BY <1>2, <2>2 DEF GoesOn
    <3>2. Len(K[i]) # 0
      <4>1. LastOf(K[i]) # Nil
        <5>1. Nil \notin DOMAIN K
          BY <1>1, Ends
        <5> QED
          BY <3>1, <5>1
      <4> QED
        BY <4>1 DEF LastOf
    <3> QED
      BY <3>1, <3>2 DEF Follows
  <2> QED
    BY <2>1, <2>2 DEF Continuing
<1>5. i \notin D
  BY <1>1
<1>6. DOMAIN L = DOMAIN K \cup {f} /\ f \notin DOMAIN K /\ L[f] = <<>>
  BY DEF Grew
<1>7. /\ \A j \in DOMAIN K : a2[j] = a[j] /\ b2[j] = b[j] /\ c2[j] = c[j]
      /\ a2[f] = Q /\ b2[f] = Q /\ a2 \in [DOMAIN L -> Nat] /\ b2 \in [DOMAIN L -> Nat] /\ c2 \in [DOMAIN L -> Nat]
  BY <1>1, <1>3, <1>6 DEF Put
<1>8. /\ s2 \in Seq(Frame) /\ Len(s2) = Len(st)
      /\ \A k \in 1 .. Len(st) : s2[k].item = st[k].item /\ s2[k].open = st[k].open
      /\ s2[Len(st)].cur = f
  <2>1. /\ s2 \in Seq(Frame) /\ Len(s2) = Len(st)
        /\ \A k \in 1 .. Len(st) - 1 : s2[k] = st[k]
        /\ s2[Len(st)].item = st[Len(st)].item /\ s2[Len(st)].open = st[Len(st)].open /\ s2[Len(st)].cur = f
    BY DEF Extended
  <2>2. \A k \in 1 .. Len(st) : k = Len(st) \/ k \in 1 .. Len(st) - 1
    BY <1>1
  <2> QED
    BY <2>1, <2>2
<1>9. Items(s2) = O /\ Awaits(s2, r) = f
  <2>1. Items(s2) = O
    BY <1>8 DEF Items
  <2> QED
    BY <1>8, <2>1 DEF Awaits
<1>s. \A k \in 1 .. Len(st) : st[k].item \in O /\ st[k].item \in DOMAIN K /\ b[st[k].item] \in Nat
  BY <1>1 DEF Items
<1>q. q \in {"value", "name"}
  BY DEF Expects
<1> HIDE DEF D, N, O, i, a2, b2, c2
<1>10. Laid(e, T, Q, L, a2, b2, c2, N, D)
  BY <1>1, <1>2, <1>3, <1>4, <1>5, LaidElement DEF N, i, a2, b2, c2
<1>11. Opened(T, Q, s2, b2)
  <2> SUFFICES ASSUME NEW k \in 1 .. Len(st) PROVE T[b2[s2[k].item] + 1] = s2[k].open /\ b2[s2[k].item] + 1 <= Q
    BY <1>8 DEF Opened
  <2>1. T[b[st[k].item] + 1] = st[k].open /\ b[st[k].item] + 1 <= P /\ b[st[k].item] \in Nat
    BY <1>2, <1>s DEF Opened
  <2>2. b2[s2[k].item] = b[st[k].item] /\ s2[k].open = st[k].open
    BY <1>7, <1>8, <1>s
  <2>3. b[st[k].item] + 1 <= Q
    BY <1>2, <1>3, <2>1
  <2> QED
    BY <2>1, <2>2, <2>3
<1>12. Stands(e, T, Q, s2, r, q, L, a2, b2, c2)
  <2>1. f \in DOMAIN L /\ f \notin Items(s2)
    BY <1>1, <1>6, <1>9 DEF N
  <2> QED
    BY <1>6, <1>7, <1>8, <1>9, <1>q, <2>1 DEF Stands
<1>13. D = DOMAIN L \ (Items(s2) \cup {Awaits(s2, r)})
  BY <1>6, <1>9 DEF D
<1>14. ValuedBy(L, s2, r, q) = D
  BY <1>13, <1>q DEF ValuedBy, Bare
<1>15. Laid(e, T, Q, L, a2, b2, c2, NamedBy(L, s2, r, q), D)
  <2>1. CASE q = "name"
    <3>1. NamedBy(L, s2, r, q) = N
      BY <1>6, <1>9, <2>1 DEF NamedBy, N
    <3> QED
      BY <1>10, <3>1
  <2>2. CASE q = "value"
    <3>1. NamedBy(L, s2, r, q) = N \cup {f}
      BY <1>6, <1>9, <2>2 DEF NamedBy, N
    <3>2. Named(e, T, f, a2[f], b2[f])
      BY <1>7 DEF Named
    <3>3. f \in DOMAIN L
      BY <1>6
    <3>4. Laid(e, T, Q, L, a2, b2, c2, N \cup {f}, D)
      BY <1>10, <3>2, <3>3, LaidName
    <3> QED
      BY <3>1, <3>4
  <2> QED
    BY <1>q, <2>1, <2>2
<1>16. e[r].name = NoStr /\ a2[r] = 0
  BY <1>1, <1>2, <1>7 DEF Kept, N
<1>17. Scanned(e, T, Q, s2, r, q, x, L, a2, b2, c2)
  BY <1>3, <1>11, <1>12, <1>14, <1>15, <1>16, <1>q DEF Scanned, Scanning
<1> QED
  BY <1>17 DEF a2, b2, c2

(* A root that nothing is known of yet.                                    *)
LEMMA ScanStart ==
    ASSUME NEW S, NEW T \in Seq(S), NEW h, NEW g, NEW K, NEW r, Pending(h, g, K, <<>>, r), K[r] = <<>>,
           DOMAIN K = {r}, h[r].name = NoStr
    PROVE  LET z == [j \in DOMAIN K |-> 0] IN Scanned(h, T, 0, <<>>, r, "value", g, K, z, z, z)
<1> DEFINE z == [j \in DOMAIN K |-> 0]
<1>1. Len(<<>>) = 0 /\ Items(<<>>) = {} /\ Awaits(<<>>, r) = r
  BY DEF Items, Awaits
<1>2. z \in [DOMAIN K -> Nat] /\ r \in DOMAIN K /\ z[r] = 0 /\ Len(K[r]) = 0
  OBVIOUS
<1>3. Laid(h, T, 0, K, z, z, z, DOMAIN K, {})
  <2>1. \A j \in DOMAIN K : j = r
    OBVIOUS
  <2>2. Named(h, T, r, z[r], z[r])
    BY DEF Named
  <2>3. Rowed(T, K, r, z, z, z) /\ \A n \in 1 .. Len(K[r]) : FALSE
    BY <1>2, NoRow
  <2> HIDE DEF z
  <2> QED
    BY <1>2, <2>1, <2>2, <2>3 DEF Laid
<1>4. DOMAIN K \ (Items(<<>>) \cup {Awaits(<<>>, r)}) = {}
  BY <1>1
<1>5. 0 <= Len(T) /\ 0 \in Nat
  BY LenProperties
<1> HIDE DEF z
<1>6. Laid(h, T, 0, K, z, z, z, NamedBy(K, <<>>, r, "value"), ValuedBy(K, <<>>, r, "value"))
  BY <1>3, <1>4 DEF NamedBy, ValuedBy, Bare
<1>7. Opened(T, 0, <<>>, z)
  BY <1>1 DEF Opened
<1>8. Stands(h, T, 0, <<>>, r, "value", K, z, z, z)
  BY <1>1, <1>2 DEF Stands, Bare
<1>9. Scanned(h, T, 0, <<>>, r, "value", g, K, z, z, z)
  BY <1>2, <1>5, <1>6, <1>7, <1>8 DEF Scanned, Scanning
<1> QED
  BY <1>9 DEF z

(* The whole value: what was consumed is what the tree prints as.          *)
LEMMA ScanDone ==
    ASSUME NEW h, NEW S, NEW T \in Seq(S), NEW P, NEW st, NEW r, NEW g, NEW K, NEW a, NEW b, NEW c,
           Scanned(h, T, P, st, r, "after", g, K, a, b, c), Len(st) = 0
    PROVE  Text(h, r) = SubSeq(T, 1, P)
<1>1. /\ InOrder(g, K) /\ r \in DOMAIN K /\ Items(st) = {} /\ Awaits(st, r) = r
      /\ b \in [DOMAIN K -> Nat] /\ c \in [DOMAIN K -> Nat] /\ a \in [DOMAIN K -> Nat]
  BY ScanFacts
<1>2. Pending(h, g, K, st, r) /\ P \in Nat /\ P <= Len(T) /\ h[r].name = NoStr /\ a[r] = 0 /\ c[r] = P
  BY <1>1 DEF Scanned, Stands
<1>3. Laid(h, T, P, K, a, b, c, DOMAIN K, DOMAIN K)
  <2>1. NamedBy(K, st, r, "after") = DOMAIN K /\ ValuedBy(K, st, r, "after") = DOMAIN K
    BY <1>1 DEF NamedBy, ValuedBy, Bare
  <2> QED
    BY <2>1 DEF Scanned
<1>4. Spelled(h, T, K, a, b, c)
  BY <1>2, <1>3, LaidOrder
<1>5. InOrder(h, K)
  <2>1. Unclosed(h, g, st) /\ DOMAIN g = DOMAIN K
    BY <1>2 DEF Pending, InOrder, Rep
  <2>2. ~\E k \in 1 .. Len(st) : TRUE
    OBVIOUS
  <2>3. Alike(h, g) /\ SameNext(h, g, DOMAIN g) /\ SamePrev(h, g, DOMAIN g) /\ SameChild(h, g, DOMAIN g)
    BY <2>1, <2>2 DEF Unclosed, SamePrev, SameChild
  <2> QED
    BY <1>1, <2>1, <2>3, SameLinks
<1>6. b[r] = 0
  BY <1>1, <1>2, <1>4 DEF Spelled, Named
<1>7. Text(h, r) = Cut(T, 0, P)
  BY <1>1, <1>2, <1>4, <1>5, <1>6, TextOfTree
<1>8. 0 + 1 = 1
  OBVIOUS
<1> QED
  BY <1>7, <1>8 DEF Cut

-----------------------------------------------------------------------------
(* What the tokens consumed so far left in the heap.                       *)
Heard(h, T, P, st, r, p) == \E g, K, a, b, c : Scanned(h, T, P, st, r, p, g, K, a, b, c)

TextPart == /\ pc \in Scanning => Heard(heap, body.text, pos, stack, root, pc)
            /\ pc = "parsed" => Text(heap, root) = SubSeq(body.text, 1, pos)

LEMMA Silent == ASSUME pc' \notin Scanning, pc' # "parsed" PROVE TextPart'
  BY DEF TextPart
LEMMA HeardThus ==
    ASSUME NEW g, NEW K, NEW a, NEW b, NEW c, NEW T, T = body'.text, NEW P, P = pos', NEW e, e = heap',
           NEW s2, s2 = stack', NEW r, r = root', NEW p, p = pc', p # "parsed", Scanned(e, T, P, s2, r, p, g, K, a, b, c)
    PROVE  TextPart'
  BY DEF TextPart, Heard

(* The token an action consumes.                                           *)
LEMMA NextToken == ASSUME body.text \in Seq(Symbols), pos \in Nat, Token # "end"
                   PROVE  pos + 1 <= Len(body.text) /\ body.text[pos + 1] = Token
<1>1. Len(body.text) \in Nat
  BY LenProperties
<1>2. pos < Len(body.text) /\ body.text[pos + 1] = Token
  BY DEF Token
<1> QED
  BY <1>1, <1>2
LEMMA StringToken == ASSUME Token \in Strings PROVE Token \notin Marks \cup {"lit", "bad", "end"} /\ Token # NoStr
  BY TextAssumption

(* What the assignments of the actions keep.                               *)
LEMMA KeptType == ASSUME NEW h, Heap(h), NEW i \in DOMAIN h, NEW v
                  PROVE  Kept([h EXCEPT ![i].type = v], h, DOMAIN h \ {i}, DOMAIN h)
  BY DEF Heap, Kept
LEMMA KeptBoth == ASSUME NEW h, Heap(h), NEW i \in DOMAIN h, NEW v, NEW w
                  PROVE  Kept([h EXCEPT ![i].type = v, ![i].str = w], h, DOMAIN h \ {i}, DOMAIN h)
  BY DEF Heap, Kept
LEMMA KeptName == ASSUME NEW h, Heap(h), NEW i \in DOMAIN h, NEW v
                  PROVE  Kept([h EXCEPT ![i].name = v], h, DOMAIN h, DOMAIN h \ {i})
  BY DEF Heap, Kept
LEMMA KeptClose == ASSUME NEW h, Heap(h), NEW f, f.item \in DOMAIN h, f.head \in DOMAIN h \cup {Nil},
                          f.cur \in DOMAIN h \cup {Nil}, NEW e, e = CloseList(h, f)
                   PROVE  Kept(e, h, DOMAIN h \ {f.item}, DOMAIN h) /\ e[f.item].type = ListType(f)
<1> DEFINE t == IF f.head = Nil THEN h ELSE [h EXCEPT ![f.head].prev = f.cur]
<1>1. Kept(t, h, DOMAIN h, DOMAIN h) /\ Heap(t) /\ DOMAIN t = DOMAIN h
  <2>1. CASE f.head = Nil
    BY <2>1 DEF Kept
  <2>2. CASE f.head # Nil
    <3>1. PrevSet([h EXCEPT ![f.head].prev = f.cur], h, f.head, f.cur)
      BY <2>2, SetPrev
    <3>2. Kept([h EXCEPT ![f.head].prev = f.cur], h, DOMAIN h, DOMAIN h)
      BY <2>2 DEF Heap, Kept
    <3> QED
      BY <2>2, <3>1, <3>2 DEF PrevSet, Alike
  <2> QED
    BY <2>1, <2>2
<1>2. e = [t EXCEPT ![f.item].type = IF f.open = "[" THEN "array" ELSE "object", ![f.item].child = f.head]
  BY DEF CloseList
<1> HIDE DEF t
<1>3. Kept(e, t, DOMAIN h \ {f.item}, DOMAIN h) /\ e[f.item].type = ListType(f)
  BY <1>1, <1>2 DEF Heap, Kept, ListType
<1> QED
  BY <1>1, <1>3 DEF Kept
LEMMA KeptLink == ASSUME NEW b, Heap(b), NEW c \in DOMAIN b, NEW f \in DOMAIN b
                  PROVE  Kept([b EXCEPT ![c].next = f, ![f].prev = c], b, DOMAIN b, DOMAIN b)
  BY DEF Heap, Kept

(* Each action of the parser.                                              *)
LEMMA LeafText == ASSUME body.text \in Seq(Symbols), ParsePart, TextPart, ParseLeaf PROVE TextPart'
<1> DEFINE T == body.text
           P == pos
           st == stack
           r == root
           h == heap
           t == Target
           e == heap'
<1>0. /\ pc = "value" /\ Token \in Strings \cup {"lit"} /\ body' = body /\ stack' = st /\ root' = r
      /\ \/ /\ e = IF Token = "lit" THEN [h EXCEPT ![t].type = "lit"]
                   ELSE [h EXCEPT ![t].type = "string", ![t].str = Token]
            /\ pos' = P + 1 /\ pc' = "after"
         \/ pc' = "fail"
  BY Zenon DEF ParseLeaf, Goto, Starve, Consume
<1>1. CASE pc' = "fail"
  BY <1>1, Silent DEF Scanning
<1>2. CASE /\ e = IF Token = "lit" THEN [h EXCEPT ![t].type = "lit"]
                   ELSE [h EXCEPT ![t].type = "string", ![t].str = Token]
           /\ pos' = P + 1 /\ pc' = "after"
  <2>1. pc \in Scanning /\ pc \in Bare
    BY <1>0 DEF Scanning, Bare
  <2>2. PICK g, K, a, b, c : Scanned(h, T, P, st, r, pc, g, K, a, b, c)
    BY <2>1 DEF TextPart, Heard
  <2>3. Heap(h) /\ t \in DOMAIN h /\ t = Awaits(st, r) /\ DOMAIN h = DOMAIN K
    BY <2>1, <2>2, TargetThere, ScanFacts
  <2>4. P + 1 <= Len(T) /\ T[P + 1] = Token
    <3>1. Token # "end"
      BY <1>0, StringToken
    <3>2. P \in Nat
      BY <2>2 DEF Scanned
    <3> QED
      BY <3>1, <3>2, NextToken
  <2>5. /\ SameShape(e, h) /\ Kept(e, h, DOMAIN h \ {t}, DOMAIN h)
        /\ \/ e[t].type = "lit" /\ T[P + 1] = "lit"
           \/ e[t].type = "string" /\ T[P + 1] = e[t].str
    <3>1. CASE Token = "lit"
      <4>1. e = [h EXCEPT ![t].type = "lit"]
        BY <1>2, <3>1
      <4>2. SameShape(e, h) /\ Kept(e, h, DOMAIN h \ {t}, DOMAIN h) /\ e[t].type = "lit"
        <5> DEFINE k == Token
        <5>1. e = [h EXCEPT ![t].type = "lit"]
          BY <4>1
        <5> HIDE DEF e, h, t, k
        <5>2. SameShape([h EXCEPT ![t].type = "lit"], h)
          BY <2>3, SameType
        <5>3. Kept([h EXCEPT ![t].type = "lit"], h, DOMAIN h \ {t}, DOMAIN h)
          BY <2>3, KeptType
        <5>5. Kept(e, h, DOMAIN h \ {t}, DOMAIN h)
          BY <5>1, <5>3
        <5>6. e[t].type = "lit"
          BY <2>3, <5>1 DEF Heap
        <5>4. SameShape(e, h)
          BY <5>1, <5>2
        <5> QED
          BY <5>4, <5>5, <5>6 DEF k
      <4> QED
        BY <2>4, <3>1, <4>2
    <3>2. CASE Token # "lit"
      <4>1. e = [h EXCEPT ![t].type = "string", ![t].str = Token]
        BY <1>2, <3>2
      <4>2. SameShape(e, h) /\ Kept(e, h, DOMAIN h \ {t}, DOMAIN h) /\ e[t].type = "string" /\ e[t].str = Token
        <5> DEFINE k == Token
        <5>1. e = [h EXCEPT ![t].type = "string", ![t].str = k]
          BY <4>1
        <5> HIDE DEF e, h, t, k
        <5>2. SameShape([h EXCEPT ![t].type = "string", ![t].str = k], h)
          BY <2>3, SameBoth
        <5>3. Kept([h EXCEPT ![t].type = "string", ![t].str = k], h, DOMAIN h \ {t}, DOMAIN h)
          BY <2>3, KeptBoth
        <5>5. Kept(e, h, DOMAIN h \ {t}, DOMAIN h)
          BY <5>1, <5>3
        <5>6. e[t].type = "string" /\ e[t].str = k
          BY <2>3, <5>1 DEF Heap
        <5>4. SameShape(e, h)
          BY <5>1, <5>2
        <5> QED
          BY <5>4, <5>5, <5>6 DEF k
      <4> QED
        BY <2>4, <4>2
    <3> QED
      BY <3>1, <3>2
  <2>6. Scanned(h, T, P, st, r, "value", g, K, a, b, c)
    BY <1>0, <2>2
  <2> HIDE DEF h, T, P, st, r, t, e
  <2>7. Scanned(e, T, P + 1, st, r, "after", g, K, a, b, [c EXCEPT ![t] = P + 1])
    BY <2>3, <2>4, <2>5, <2>6, ScanLeaf
  <2>8. T = body'.text /\ P + 1 = pos' /\ st = stack' /\ r = root' /\ e = heap' /\ pc' = "after"
    BY <1>0, <1>2 DEF T, st, r, e
  <2> QED
    BY <2>7, <2>8, HeardThus
<1> QED
  BY <1>0, <1>1, <1>2

LEMMA OpenText == ASSUME body.text \in Seq(Symbols), ParsePart, TextPart, ParseOpen PROVE TextPart'
<1> DEFINE T == body.text
           P == pos
           st == stack
           r == root
           h == heap
           t == Target
           f == [item |-> t, open |-> Token, head |-> Nil, cur |-> Nil]
<1>0. /\ pc = "value" /\ Token \in Opening /\ body' = body /\ heap' = h /\ root' = r
      /\ pc' = "fail" \/ (stack' = Append(st, f) /\ pos' = P + 1 /\ pc' = "first")
  BY Zenon DEF ParseOpen, Goto, Consume, Opening
<1>1. CASE pc' = "fail"
  BY <1>1, Silent DEF Scanning
<1>2. CASE stack' = Append(st, f) /\ pos' = P + 1 /\ pc' = "first"
  <2>1. pc \in Scanning /\ pc \in Bare
    BY <1>0 DEF Scanning, Bare
  <2>2. PICK g, K, a, b, c : Scanned(h, T, P, st, r, pc, g, K, a, b, c)
    BY <2>1 DEF TextPart, Heard
  <2>3. t = Awaits(st, r)
    BY <2>1, TargetThere
  <2>4. P + 1 <= Len(T) /\ T[P + 1] = Token
    <3>1. Token # "end"
      BY <1>0 DEF Opening
    <3>2. P \in Nat
      BY <2>2 DEF Scanned
    <3> QED
      BY <3>1, <3>2, NextToken
  <2>6. Scanned(h, T, P, st, r, "value", g, K, a, b, c)
    BY <1>0, <2>2
  <2>7. Scanned(h, T, P + 1, Append(st, f), r, "first", g, K, a, b, c)
    <3> DEFINE o == Token
    <3>1. o \in Opening /\ T[P + 1] = o /\ f = [item |-> t, open |-> o, head |-> Nil, cur |-> Nil]
      BY <1>0, <2>4
    <3> HIDE DEF h, T, P, st, r, t, f, o
    <3> QED
      BY <2>3, <2>4, <2>6, <3>1, ScanOpen
  <2>8. T = body'.text /\ P + 1 = pos' /\ Append(st, f) = stack' /\ r = root' /\ h = heap' /\ pc' = "first"
    BY <1>0, <1>2
  <2> HIDE DEF h, T, P, st, r, t, f
  <2> QED
    BY <2>7, <2>8, HeardThus
<1> QED
  BY <1>0, <1>1, <1>2

LEMMA CloseText == ASSUME body.text \in Seq(Symbols), ParsePart, TextPart, ParseClose PROVE TextPart'
<1> DEFINE T == body.text
           P == pos
           st == stack
           r == root
           h == heap
           top == Top
           i == Top.item
           e == heap'
           s2 == stack'
           p == pc
<1>0. /\ p \in {"first", "after"} /\ Token = Close(top.open) /\ e = CloseList(h, top) /\ body' = body /\ root' = r
      /\ pos' = P + 1 /\ pc' = "after"
  BY DEF ParseClose, Goto, Consume
<1>1. p \in Scanning /\ Continuing(p) /\ pc \in Unready
  BY <1>0 DEF Scanning, Continuing, Unready
<1>2. PICK g, K, a, b, c : Scanned(h, T, P, st, r, p, g, K, a, b, c)
  BY <1>1 DEF TextPart, Heard
<1>3. Pending(h, g, K, st, r) /\ P \in Nat
  BY <1>2 DEF Scanned
<1>4. /\ Len(st) # 0 /\ top = st[Len(st)] /\ Heap(h) /\ Popped(s2, st)
      /\ i \in DOMAIN h /\ {top.head, top.cur} \subseteq DOMAIN h \cup {Nil}
      /\ Pending(e, g, K, s2, r)
  BY <1>0, <1>3, CloseLinks
<1>5. DOMAIN h = DOMAIN K
  BY <1>2, ScanFacts
<1>6. P + 1 <= Len(T) /\ Shuts(T, P, top)
  <2>1. Token # "end"
    BY <1>0 DEF Close
  <2>2. P + 1 <= Len(T) /\ T[P + 1] = Token
    BY <1>3, <2>1, NextToken
  <2>3. Token = IF top.open = "[" THEN "]" ELSE "}"
    BY <1>0 DEF Close
  <2>4. T[P + 1] = IF top.open = "[" THEN "]" ELSE "}"
    BY <2>2, <2>3
  <2> HIDE DEF T, P, top
  <2> QED
    BY <2>2, <2>4 DEF Shuts
<1>7. T = body'.text /\ P + 1 = pos' /\ s2 = stack' /\ r = root' /\ e = heap' /\ pc' = "after" /\ i = top.item
  BY <1>0
<1> HIDE DEF T, P, st, r, h, top, i, e, s2, p
<1>8. Kept(e, h, DOMAIN K \ {i}, DOMAIN K) /\ e[i].type = ListType(top)
  BY <1>0, <1>4, <1>5, <1>7, KeptClose, ZenonT(30)
<1>9. Scanned(e, T, P + 1, s2, r, "after", g, K, a, b, [c EXCEPT ![i] = P + 1])
  BY <1>1, <1>2, <1>4, <1>6, <1>7, <1>8, ScanClose
<1> QED
  BY <1>7, <1>9, HeardThus

LEMMA ElementText == ASSUME body.text \in Seq(Symbols), ParsePart, TextPart, ParseElement PROVE TextPart'
<1> DEFINE T == body.text
           P == pos
           st == stack
           r == root
           h == heap
           top == Top
           f == Fresh(heap)
           e == heap'
           s2 == stack'
           p == pc
           Q == pos'
           q == pc'
           w == WithItem(heap, "invalid")
<1>0. /\ \/ p = "first" /\ Q = P
         \/ p = "after" /\ Token = "," /\ Q = P + 1
      /\ body' = body /\ root' = r
      /\ \/ q = "fail"
         \/ /\ e = IF top.head = Nil THEN w ELSE [w EXCEPT ![top.cur].next = f, ![f].prev = top.cur]
            /\ q = Expects(top)
  BY Zenon DEF ParseElement, Goto, Starve, Consume, Expects
<1>1. p \in Scanning /\ Continuing(p) /\ pc \in Unready
  BY <1>0 DEF Scanning, Continuing, Unready
<1>2. PICK g, K, a, b, c : Scanned(h, T, P, st, r, p, g, K, a, b, c)
  BY <1>1 DEF TextPart, Heard
<1>3. CASE q = "fail"
  BY <1>3, Silent DEF Scanning
<1>4. CASE q # "fail"
  <2>1. Pending(h, g, K, st, r) /\ P \in Nat
    BY <1>2 DEF Scanned
  <2>2. /\ Len(st) # 0 /\ top = st[Len(st)] /\ Heap(h) /\ ~Full(h) /\ Extended(h, st, s2, f)
        /\ AwaitsBare(e, s2, root, f, K, top.item)
    BY <1>4, <2>1, ElementTree
  <2>3. PICK x, L : Pending(e, x, L, s2, r) /\ Grew(K, L, top.item, f)
    BY <2>2 DEF AwaitsBare
  <2>4. GoesOn(T, P, p, Q)
    <3>1. CASE p = "after" /\ Token = "," /\ Q = P + 1
      <4>1. P + 1 <= Len(T) /\ T[P + 1] = Token
        BY <2>1, <3>1, NextToken
      <4> QED
        BY <3>1, <4>1 DEF GoesOn
    <3> QED
      BY <1>0, <3>1 DEF GoesOn
  <2>5. /\ e = IF top.head = Nil THEN w ELSE [w EXCEPT ![top.cur].next = f, ![f].prev = top.cur]
        /\ q = Expects(top)
    BY <1>0, <1>4
  <2>6. /\ Heap(w) /\ DOMAIN w = DOMAIN h \cup {f} /\ f \notin DOMAIN h
        /\ \A j \in DOMAIN h : w[j] = h[j]
        /\ w[f].name = NoStr
    BY <2>2, WithHeap
  <2>7. DOMAIN h = DOMAIN K /\ (top.head # Nil => top.cur \in DOMAIN h)
    <3>1. InOrder(g, K) /\ Framed(K, st, r) /\ DOMAIN K = DOMAIN h /\ Len(st) \in 1 .. Len(st)
      BY <1>2, <2>2, ScanFacts
    <3>2. top.item \in DOMAIN K /\ top.head = FirstOf(K[top.item]) /\ top.cur = LastOf(K[top.item])
      BY <2>2, <3>1 DEF Framed
    <3> HIDE DEF top, h
    <3>3. top.head # Nil => Len(K[top.item]) # 0
      BY <3>1, <3>2, Ends
    <3> QED
      BY <3>1, <3>2, <3>3, Ends
  <2>8. T = body'.text /\ Q = pos' /\ s2 = stack' /\ r = root' /\ e = heap' /\ q = pc'
    BY <1>0
  <2> HIDE DEF T, P, st, r, h, top, f, e, s2, p, Q, q, w
  <2>9. Kept(e, h, DOMAIN K, DOMAIN K) /\ e[f].name = NoStr
    <3>1. Kept(e, w, DOMAIN w, DOMAIN w)
      <4>1. CASE top.head = Nil
        BY <2>5, <4>1 DEF Kept
      <4>2. CASE top.head # Nil
        <5>1. top.cur \in DOMAIN w /\ f \in DOMAIN w
          BY <2>6, <2>7, <4>2
        <5> DEFINE c1 == top.cur
        <5>2. c1 \in DOMAIN w /\ e = [w EXCEPT ![c1].next = f, ![f].prev = c1]
          BY <2>5, <4>2, <5>1
        <5> HIDE DEF c1
        <5>3. Kept([w EXCEPT ![c1].next = f, ![f].prev = c1], w, DOMAIN w, DOMAIN w)
          BY <2>6, <5>1, <5>2, KeptLink
        <5> QED
          BY <5>2, <5>3
      <4> QED
        BY <4>1, <4>2
    <3> QED
      BY <2>6, <2>7, <3>1 DEF Kept
  <2>a. Scanned(e, T, Q, s2, r, q, x, L, Put(a, K, L, f, Q), Put(b, K, L, f, Q), Put(c, K, L, f, Q))
    <3>1. /\ Continuing(p) /\ Len(st) # 0 /\ top = st[Len(st)] /\ Extended(h, st, s2, f) /\ q = Expects(top)
          /\ Scanned(h, T, P, st, r, p, g, K, a, b, c)
      BY <1>1, <1>2, <2>2, <2>5
    <3> QED
      BY <2>3, <2>4, <2>9, <3>1, ScanElement
  <2>b. q # "parsed"
    BY <2>5 DEF Expects
  <2> QED
    BY <2>8, <2>a, <2>b, HeardThus
<1> QED
  BY <1>3, <1>4

LEMMA NameText == ASSUME body.text \in Seq(Symbols), ParsePart, TextPart, ParseName PROVE TextPart'
<1> DEFINE T == body.text
           P == pos
           st == stack
           r == root
           h == heap
           t == Target
           k == Token
           e == heap'
<1>0. /\ pc = "name" /\ Token \in Strings /\ body' = body /\ stack' = st /\ root' = r
      /\ \/ e = [h EXCEPT ![Top.cur].name = k] /\ pos' = P + 1 /\ pc' = "colon"
         \/ pc' = "fail"
  BY DEF ParseName, Goto, Starve, Consume
<1>1. CASE pc' = "fail"
  BY <1>1, Silent DEF Scanning
<1>2. CASE e = [h EXCEPT ![Top.cur].name = k] /\ pos' = P + 1 /\ pc' = "colon"
  <2>1. pc \in Scanning /\ pc \in Bare
    BY <1>0 DEF Scanning, Bare
  <2>2. PICK g, K, a, b, c : Scanned(h, T, P, st, r, pc, g, K, a, b, c)
    BY <2>1 DEF TextPart, Heard
  <2>3. /\ Heap(h) /\ t \in DOMAIN h /\ t = Awaits(st, r) /\ DOMAIN h = DOMAIN K
        /\ Scanned(h, T, P, st, r, "name", g, K, a, b, c)
    BY <1>0, <2>1, <2>2, TargetThere, ScanFacts
  <2>4. P + 1 <= Len(T) /\ T[P + 1] = k /\ k # NoStr
    <3>1. Token # "end" /\ Token # NoStr
      BY <1>0, StringToken
    <3>2. P \in Nat
      BY <2>2 DEF Scanned
    <3> QED
      BY <3>1, <3>2, NextToken
  <2>5. t = Top.cur
    <3>1. stack # <<>>
      BY <1>0 DEF ParsePart
    <3> QED
      BY <3>1 DEF Target
  <2>6. e = [h EXCEPT ![t].name = k]
    BY <1>2, <2>5
  <2>7. T = body'.text /\ P + 1 = pos' /\ st = stack' /\ r = root' /\ e = heap' /\ pc' = "colon"
    BY <1>0, <1>2
  <2> HIDE DEF h, T, P, st, r, t, e, k
  <2>8. SameShape([h EXCEPT ![t].name = k], h) /\ Kept([h EXCEPT ![t].name = k], h, DOMAIN h, DOMAIN h \ {t})
    BY <2>3, SameName, KeptName
  <2>9. SameShape(e, h) /\ Kept(e, h, DOMAIN h, DOMAIN h \ {t}) /\ e[t].name = k
    BY <2>3, <2>6, <2>8 DEF Heap
  <2>a. Scanned(e, T, P + 1, st, r, "colon", g, K, a, b, c)
    BY <2>3, <2>4, <2>9, ScanName
  <2> QED
    BY <2>7, <2>a, HeardThus
<1> QED
  BY <1>0, <1>1, <1>2

LEMMA ColonText == ASSUME body.text \in Seq(Symbols), ParsePart, TextPart, ParseColon PROVE TextPart'
<1> DEFINE T == body.text
           P == pos
           st == stack
           r == root
           h == heap
           t == Target
<1>0. /\ pc = "colon" /\ body' = body /\ stack' = st /\ root' = r /\ heap' = h
      /\ (Token = ":" /\ pos' = P + 1 /\ pc' = "value") \/ pc' = "fail"
  BY Zenon DEF ParseColon, Goto, Consume
<1>1. CASE pc' = "fail"
  BY <1>1, Silent DEF Scanning
<1>2. CASE Token = ":" /\ pos' = P + 1 /\ pc' = "value"
  <2>1. pc \in Scanning /\ pc \in Bare
    BY <1>0 DEF Scanning, Bare
  <2>2. PICK g, K, a, b, c : Scanned(h, T, P, st, r, pc, g, K, a, b, c)
    BY <2>1 DEF TextPart, Heard
  <2>3. t = Awaits(st, r) /\ Scanned(h, T, P, st, r, "colon", g, K, a, b, c)
    BY <1>0, <2>1, <2>2, TargetThere
  <2>4. P + 1 <= Len(T) /\ T[P + 1] = ":"
    <3>1. P \in Nat
      BY <2>2 DEF Scanned
    <3> QED
      BY <1>2, <3>1, NextToken
  <2>5. T = body'.text /\ P + 1 = pos' /\ st = stack' /\ r = root' /\ h = heap' /\ pc' = "value"
    BY <1>0, <1>2
  <2> HIDE DEF h, T, P, st, r, t
  <2>6. Scanned(h, T, P + 1, st, r, "value", g, K, a, [b EXCEPT ![t] = P + 1], c)
    BY <2>3, <2>4, ScanColon
  <2> QED
    BY <2>5, <2>6, HeardThus
<1> QED
  BY <1>0, <1>1, <1>2

LEMMA DoneText == ASSUME body.text \in Seq(Symbols), ParsePart, TextPart, ParseDone PROVE TextPart'
<1> DEFINE T == body.text
           P == pos
           st == stack
           r == root
           h == heap
<1>0. /\ pc = "after" /\ st = <<>> /\ pc' = "parsed"
      /\ body' = body /\ root' = r /\ heap' = h /\ pos' = P
  BY DEF ParseDone, Goto
<1>1. PICK g, K, a, b, c : Scanned(h, T, P, st, r, pc, g, K, a, b, c)
  <2>1. pc \in Scanning
    BY <1>0 DEF Scanning
  <2> QED
    BY <2>1 DEF TextPart, Heard
<1>2. Len(st) = 0 /\ Scanned(h, T, P, st, r, "after", g, K, a, b, c) /\ T \in Seq(Symbols)
  BY <1>0, <1>1
<1>3. Text(h, r) = SubSeq(T, 1, P)
  <2> HIDE DEF h, T, P, st, r
  <2> QED
    BY <1>2, ScanDone
<1> QED
  BY <1>0, <1>3 DEF TextPart, Scanning

LEMMA StartText == ASSUME body.text \in Seq(Symbols), ParsePart, ParseStart PROVE TextPart'
<1> DEFINE e == WithItem(<<>>, "invalid")
           r == Fresh(<<>>)
           T == body.text
           z == <<>>
<1>0. /\ heap = z /\ body' = body /\ pos' = 0 /\ stack' = <<>>
      /\ \/ ~Full(heap) /\ heap' = WithItem(heap, "invalid") /\ root' = Fresh(heap) /\ pc' = "value"
         \/ pc' = "refused"
  BY DEF ParseStart, ParsePart, Goto, Starve
<1>1. CASE pc' = "refused"
  BY <1>1, Silent DEF Scanning
<1>2. CASE ~Full(heap) /\ heap' = WithItem(heap, "invalid") /\ root' = Fresh(heap) /\ pc' = "value"
  <2>1. ~Full(<<>>) /\ heap' = e /\ root' = r
    BY <1>0, <1>2
  <2>2. PICK g, K : Pending(e, g, K, <<>>, r) /\ r \in DOMAIN K /\ K[r] = <<>>
    BY <2>1, PendStart
  <2>3. DOMAIN K = {r} /\ e[r].name = NoStr
    <3>1. Heap(z) /\ ~Full(z)
      BY <2>1, NothingOwned DEF Owns, InOrder, Rep
    <3>2. DOMAIN z = {}
      OBVIOUS
    <3> HIDE DEF z
    <3>3. LET b == WithItem(z, "invalid") f == Fresh(z) IN DOMAIN b = DOMAIN z \cup {f} /\ b[f].name = NoStr
      BY <3>1, WithHeap
    <3>4. DOMAIN e = {r} /\ e[r].name = NoStr
      BY <3>2, <3>3 DEF z
    <3> HIDE DEF e, r
    <3>5. DOMAIN K = DOMAIN e
      BY <2>2 DEF Pending, InOrder, Rep, Unclosed, Alike
    <3> QED
      BY <3>4, <3>5
  <2> DEFINE y == [j \in DOMAIN K |-> 0]
  <2>4. Scanned(e, T, 0, <<>>, r, "value", g, K, y, y, y)
    <3> HIDE DEF e, r, T
    <3>1. T \in Seq(Symbols)
      BY DEF T
    <3> QED
      BY <2>2, <2>3, <3>1, ScanStart
  <2>5. T = body'.text /\ 0 = pos' /\ z = stack' /\ r = root' /\ e = heap' /\ pc' = "value"
    BY <1>0, <1>2, <2>1
  <2> HIDE DEF e, r, T, y
  <2>6. Scanned(e, T, 0, z, r, "value", g, K, y, y, y)
    BY <2>4
  <2> HIDE DEF z
  <2> QED
    BY <2>5, <2>6, HeardThus
<1> QED
  BY <1>0, <1>1, <1>2

LEMMA ParseText == ASSUME body.text \in Seq(Symbols), ParsePart, TextPart, Parse PROVE TextPart'
<1>1. CASE ParseNothing \/ ParseNoName \/ ParseUnexpected
  <2>1. pc' = "fail"
    BY <1>1 DEF ParseNothing, ParseNoName, ParseUnexpected, Goto
  <2> QED
    BY <2>1, Silent DEF Scanning
<1>2. CASE ParseFail
  <2>1. pc' \in {"fail", "refused"}
    BY <1>2, Zenon DEF ParseFail, Goto
  <2> QED
    BY <2>1, Silent DEF Scanning
<1> QED
  BY <1>1, <1>2, StartText, LeafText, OpenText, CloseText, ElementText, NameText, ColonText, DoneText DEF Parse

(* The same in the handlers.                                               *)
TextInv == /\ body.text \in Seq(Symbols)
           /\ at \in {"validate", "extract"} => TextPart
           /\ pc = "parsed" => at \in {"validate", "extract"}

LEMMA TextInit == Init => TextInv
<1> SUFFICES ASSUME Init PROVE TextInv
  OBVIOUS
<1>1. body.text = <<>> /\ at = "idle" /\ pc = "rest"
  BY DEF Init, NoBody
<1>2. <<>> \in Seq(Symbols)
  BY EmptySeq
<1> QED
  BY <1>1, <1>2 DEF TextInv

LEMMA TextMoves == ASSUME TextInv, body' = body, pc' # "parsed",
                          at' \in {"validate", "extract"} => pc' \notin Scanning
                   PROVE  TextInv'
  BY Silent DEF TextInv

LEMMA TextNext == HeapInv /\ TextInv /\ [Next]_vars => TextInv'
<1> SUFFICES ASSUME HeapInv, TextInv, [Next]_vars PROVE TextInv'
  OBVIOUS
<1>1. CASE UNCHANGED vars
  BY <1>1 DEF vars, textVars, msgVars, TextInv, TextPart
<1>2. ASSUME NEW c \in Posting, NEW b \in Bodies \cup {NoBody}, Request(c, b) PROVE TextInv'
  <2>1. b.text \in Seq(Symbols)
    <3>1. <<>> \in Seq(Symbols)
      BY EmptySeq
    <3>2. NoBody.text = <<>>
      BY DEF NoBody
    <3>3. CASE b \in Bodies
      BY <3>3, MessagesAssumption
    <3>4. CASE b = NoBody
      BY <3>1, <3>2, <3>4
    <3> QED
      BY <3>3, <3>4
  <2>2. /\ at = "idle" /\ body' = b
        /\ \/ at' = "answered" /\ pc' = pc
           \/ pc' = "parse"
    BY <1>2, Zenon DEF Request, Refuse, Reply, Goto
  <2>3. CASE at' = "answered" /\ pc' = pc
    BY <2>1, <2>2, <2>3 DEF TextInv
  <2>4. CASE pc' = "parse"
    <3>1. TextPart'
      BY <2>4, Silent DEF Scanning
    <3> QED
      BY <2>1, <2>2, <2>4, <3>1 DEF TextInv
  <2> QED
    BY <2>2, <2>3, <2>4
<1>3. ASSUME NEW c \in Reading, NEW p, Lookup(c, p) PROVE TextInv'
  <2>1. at = "idle" /\ at' \in {"build", "answered"} /\ body' = body /\ pc' = pc
    BY <1>3, Zenon DEF Lookup, Build, Refuse, Reply, textVars
  <2> QED
    BY <2>1 DEF TextInv
<1>4. CASE Parsing
  <2>1. at \in {"validate", "extract"} /\ Parse /\ at' = at
    BY <1>4 DEF Parsing, msgVars
  <2>2. ParsePart /\ TextPart /\ body.text \in Seq(Symbols)
    BY <2>1 DEF HeapInv, TextInv
  <2>3. TextPart'
    BY <2>1, <2>2, ParseText
  <2>4. body' = body
    BY <2>1, Zenon DEF Parse, ParseStart, ParseLeaf, ParseOpen, ParseNothing, ParseClose, ParseElement,
       ParseName, ParseNoName, ParseColon, ParseUnexpected, ParseDone, ParseFail
  <2> QED
    BY <2>1, <2>2, <2>3, <2>4 DEF TextInv
<1>5. CASE Validate
  <2>1. body' = body /\ pc' \in {"parse", "rest"}
    BY <1>5, Zenon DEF Validate, Goto
  <2> QED
    BY <2>1, TextMoves DEF Scanning
<1>6. CASE Extract
  <2>1. body' = body /\ pc' = "rest"
    BY <1>6, Zenon DEF Extract, Goto
  <2> QED
    BY <2>1, TextMoves DEF Scanning
<1>7. CASE BuildStep \/ BuildFails \/ Answer
  <2>1. at \notin {"validate", "extract"} /\ at' \in {at, "answer", "answered"} /\ body' = body /\ pc' = pc
    BY <1>7, Zenon DEF BuildStep, BuildFails, Answer, Refuse, Reply, textVars
  <2> QED
    BY <2>1 DEF TextInv
<1>8. CASE PrintAnswer \/ Finalise
  <2>1. body' = body /\ pc' \in {"print", "rest"}
    BY <1>8, Zenon DEF PrintAnswer, Finalise, Goto
  <2> QED
    BY <2>1, TextMoves DEF Scanning
<1>9. CASE PrintingAnswer
  <2>1. at = "print" /\ at' = at /\ Printing
    BY <1>9 DEF PrintingAnswer, msgVars
  <2>2. body' = body /\ pc' \in {pc, "piece", "printed", "unprinted"}
    BY <2>1, Zenon DEF Printing, PrintStart, PrintPiece, PrintDone, Goto, Starve
  <2> QED
    BY <2>1, <2>2 DEF TextInv
<1>a. CASE Return
  <2>1. body' = NoBody /\ pc' = "rest" /\ at' = "idle"
    BY <1>a DEF Return
  <2>2. NoBody.text \in Seq(Symbols)
    BY EmptySeq DEF NoBody
  <2> QED
    BY <2>1, <2>2 DEF TextInv
<1> QED
  BY <1>1, <1>2, <1>3, <1>4, <1>5, <1>6, <1>7, <1>8, <1>9, <1>a DEF Next, Work

(* The lists of a tree that owns the heap are closed.                      *)
LEMMA OwnedClosed == ASSUME NEW h, NEW R, Owns(h, R), NEW i \in DOMAIN h PROVE Closed(h, Children(h, i))
<1> DEFINE K == KidsOf(h)
<1>1. InOrder(h, K) /\ DOMAIN K = DOMAIN h /\ K[i] = Children(h, i)
  BY DEF Owns, InOrder, Rep, KidsOf
<1> HIDE DEF K
<1>2. K[i] \in Seq(DOMAIN K) /\ DOMAIN K[i] = 1 .. Len(K[i])
  <2>1. K[i] \in Seq(DOMAIN K)
    BY <1>1, RepPlace DEF InOrder
  <2> QED
    BY <2>1, LenProperties
<1>3. \A n \in 1 .. Len(K[i]) : h[K[i][n]].prev = PrevOf(K[i], n)
  BY <1>1 DEF InOrder, Rep, Linked
<1> QED
  BY <1>1, <1>2, <1>3 DEF Closed, PrevOf, Last

LEMMA TextSafe == HeapInv /\ TextInv => PrintsBack
<1> SUFFICES ASSUME HeapInv, TextInv, pc = "parsed"
             PROVE  /\ Text(heap, root) = SubSeq(body.text, 1, pos)
                    /\ \A i \in DOMAIN heap : Closed(heap, Children(heap, i))
  BY DEF PrintsBack
<1>1. ParsePart /\ TextPart
  BY DEF HeapInv, TextInv
<1>2. Owns(heap, {root})
  BY <1>1 DEF ParsePart
<1> QED
  BY <1>1, <1>2, OwnedClosed DEF TextPart

(* The tree cJSON_Parse returns prints back as exactly the tokens it       *)
(* consumed: no member, element or name is dropped, invented or moved, and *)
(* the lists in it are closed, whichever allocation failed before, for any *)
(* text, of any length and depth, and any memory and nesting limit.        *)
THEOREM ParsedPrintsBack == Spec => []PrintsBack
<1>1. Init => HeapInv /\ TextInv
  BY HeapInit, TextInit
<1>2. HeapInv /\ TextInv /\ [Next]_vars => (HeapInv /\ TextInv)'
  BY HeapNext, TextNext
<1>3. HeapInv /\ TextInv => PrintsBack
  BY TextSafe
<1> QED
  BY <1>1, <1>2, <1>3, PTL DEF Spec
=============================================================================
