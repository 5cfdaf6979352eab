------------------------------ MODULE Envelope ------------------------------
(***************************************************************************)
(* The ciphertext envelope of src/src/tpm.rs,                              *)
(*     version(1) || public_len(u16 BE) || public || private               *)
(* as pure functions, and the life of one envelope: `seal` ends with       *)
(* envelope_encode, `unseal` begins with envelope_decode, and in between   *)
(* the apiserver stores the bytes, which may come back as they were        *)
(* written, cut short, or with a byte changed.  What Kms abstracts to a    *)
(* well-formed envelope or a malformed one is decided here, byte by byte.  *)
(***************************************************************************)
EXTENDS Integers, Sequences

CONSTANTS
    Base,        \* values of a byte (256)
    Version,     \* ENVELOPE_VERSION
    Publics,     \* marshalled TPMT_PUBLIC areas
    Privates,    \* private areas the TPM returns
    MaxPrivate   \* bytes a TPM2B_PRIVATE can hold

Byte == 0..(Base - 1)

IsPrefixOf(s, t) == Len(s) =< Len(t) /\ s = SubSeq(t, 1, Len(s))

(***************************************************************************)
(* A marshalled public area tells its own length: none is the beginning of *)
(* another one.                                                            *)
(***************************************************************************)
ASSUME EnvelopeAssumption ==
    /\ Base \in Nat /\ Base >= 2
    /\ Version \in Byte
    /\ Publics \subseteq Seq(Byte)
    /\ \A p, q \in Publics : IsPrefixOf(p, q) => p = q
    /\ MaxPrivate \in Nat
    /\ Privates \subseteq {q \in Seq(Byte) : Len(q) =< MaxPrivate}

-----------------------------------------------------------------------------
(* envelope_encode *)

\* `len() as u16` keeps the low 16 bits.
AsU16(n) == n % (Base * Base)

\* Variant of ToBeBytes with the bytes swapped.
ToLeBytes(n) == <<n % Base, n \div Base>>

ToBeBytes(n) == <<n \div Base, n % Base>>

FromBeBytes(hi, lo) == hi * Base + lo

Encode(p, q) == <<Version>> \o ToBeBytes(AsU16(Len(p))) \o p \o q

-----------------------------------------------------------------------------
(* envelope_decode *)

Ok(p, q) == [status |-> "ok", public |-> p, private |-> q]
MalformedEnvelope == [status |-> "malformed", public |-> <<>>, private |-> <<>>]
Panicked == [status |-> "panic", public |-> <<>>, private |-> <<>>]

\* Public::unmarshall: the public areas at the start of bs (at most one);
\* bytes after it are not looked at.
Unmarshalled(bs) == {p \in Publics : IsPrefixOf(p, bs)}

\* Variant of TooShort that forgets the header.
ShorterThanPublic(bs, public_len) == Len(bs) < public_len

TooShort(bs, public_len) == Len(bs) < 3 + public_len

\* Slicing beyond the end panics.
Parse(bs, public_len) ==
    LET public == SubSeq(bs, 4, 3 + public_len)
        private == SubSeq(bs, 4 + public_len, Len(bs))
    IN  IF 3 + public_len > Len(bs) THEN Panicked
        ELSE IF Unmarshalled(public) = {} \/ Len(private) > MaxPrivate
               THEN MalformedEnvelope
               ELSE Ok(CHOOSE p \in Unmarshalled(public) : TRUE, private)

Decode(bs) ==
    IF Len(bs) < 3
      THEN MalformedEnvelope
      ELSE LET public_len == FromBeBytes(bs[2], bs[3])
           IN  IF bs[1] # Version \/ TooShort(bs, public_len)
                 THEN MalformedEnvelope
                 ELSE Parse(bs, public_len)

-----------------------------------------------------------------------------
(* An envelope's life *)

VARIABLES
    public, private,   \* what TPM2_Create returned
    stored,            \* the bytes in the apiserver's storage
    state              \* "none", "intact", "cut" or "changed"

envelope == <<public, private, stored, state>>

EnvelopeInit ==
    /\ public = <<>> /\ private = <<>>
    /\ stored = <<>>
    /\ state = "none"

\* The end of TpmSealer::seal.
Store ==
    /\ state = "none"
    /\ public' \in Publics
    /\ private' \in Privates
    /\ stored' = Encode(public', private')
    /\ state' = "intact"

\* Storage loses the tail.
Truncate ==
    /\ state \in {"intact", "cut"}
    /\ \E n \in 0..(Len(stored) - 1) : stored' = SubSeq(stored, 1, n)
    /\ state' = "cut"
    /\ UNCHANGED <<public, private>>

\* A byte changes, in a whole envelope or in a cut one.
Change ==
    /\ state \in {"intact", "cut"}
    /\ \E i \in 1..Len(stored), b \in Byte : stored' = [stored EXCEPT ![i] = b]
    /\ state' = "changed"
    /\ UNCHANGED <<public, private>>

EnvelopeNext == Store \/ Truncate \/ Change

EnvelopeSpec == EnvelopeInit /\ [][EnvelopeNext]_envelope

-----------------------------------------------------------------------------
(* Properties *)

(***************************************************************************)
(* What was sealed is read back, unless the public area is too long for    *)
(* the u16 that announces its length; then the envelope is rejected and    *)
(* never taken for another one (tpm.rs:260, 283-291).                      *)
(***************************************************************************)
ReadBackOrRejected ==
    state = "intact" =>
        Decode(stored) = IF Len(public) < Base * Base
                           THEN Ok(public, private) ELSE MalformedEnvelope

(***************************************************************************)
(* "must never panic on malformed input" (tpm.rs:270), whatever became of  *)
(* the bytes; a panic would also poison the sealer's mutex.  And a cut     *)
(* envelope is rejected, or its public area is complete and intact and     *)
(* only the tail of the private area is missing: envelope_decode cannot    *)
(* detect that (TPM2_Load does), but no other public area is ever read.    *)
(***************************************************************************)
DamageIsNeverMisread ==
    LET read == Decode(stored) IN
    /\ read.status # "panic"
    /\ (state = "cut" /\ read.status = "ok") =>
          /\ read.public = public
          /\ IsPrefixOf(read.private, private)
          /\ Len(stored) >= 3 + Len(public)
=============================================================================
