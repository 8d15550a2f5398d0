------------------------------- MODULE DspPsk -------------------------------
(***************************************************************************)
(* The pre-shared key store (dsp_psk.c): two buffers of fixed size with    *)
(* the lengths in use.  A shorter key leaves the tail of a longer one in   *)
(* its buffer until deinit wipes it.                                       *)
(***************************************************************************)
EXTENDS Naturals, Sequences, SequencesExt

CONSTANTS
    MinKey,  \* DSP_PSK_MIN_KEY_LEN
    MaxLen,  \* DSP_PSK_MAX_KEY_LEN and DSP_PSK_MAX_IDENTITY_LEN
    Byte     \* what identities and keys are made of, other than 0

ASSUME PskAssumption == /\ {MinKey, MaxLen} \subseteq Nat \ {0} /\ MinKey <= MaxLen
                        /\ Byte \subseteq Nat \ {0}

VARIABLES
    identity,   \* [buf, len]
    key,
    configured,
    given       \* the credentials last accepted, <<>> when there are none

pskVars == <<identity, key, configured, given>>

Empty == [buf |-> [n \in 1..MaxLen |-> 0], len |-> 0]
Some == BoundedSeq(Byte, MaxLen + 1)

PskInit == identity = Empty /\ key = Empty /\ configured = FALSE /\ given = <<>>

(* memcpy over the front of the buffer.                                    *)
Stored_OldLength(s, new) ==
    [buf |-> [n \in 1..MaxLen |-> IF n <= Len(new) THEN new[n] ELSE s.buf[n]],
     len |-> IF s.len = 0 THEN Len(new) ELSE s.len]
Stored(s, new) ==
    [buf |-> [n \in 1..MaxLen |-> IF n <= Len(new) THEN new[n] ELSE s.buf[n]], len |-> Len(new)]

Set(i, k) ==
    IF Len(i) \in 1..MaxLen /\ Len(k) \in MinKey..MaxLen
    THEN /\ identity' = Stored(identity, i) /\ key' = Stored(key, k)
         /\ configured' = TRUE /\ given' = <<i, k>>
    ELSE UNCHANGED pskVars

(* dsp_psk_init and dsp_psk_deinit.                                        *)
Wipe == identity' = Empty /\ key' = Empty /\ configured' = FALSE /\ given' = <<>>

(* What dsp_psk_apply gives mbedTLS, <<>> when it fails.                   *)
Handed == IF configured THEN <<SubSeq(identity.buf, 1, identity.len), SubSeq(key.buf, 1, key.len)>>
          ELSE <<>>

PskNext == Wipe \/ \E i, k \in Some : Set(i, k)

PskSpec == PskInit /\ [][PskNext]_pskVars
-----------------------------------------------------------------------------
(* TLS is given exactly the credentials last accepted since the store was  *)
(* initialised, whatever was there before, and none when there are none;   *)
(* an empty store keeps no byte of a key.                                  *)
HandedTrue == /\ Handed = given
              /\ ~configured => identity.buf = Empty.buf /\ key.buf = Empty.buf
=============================================================================
