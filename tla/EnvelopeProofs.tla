--------------------------- MODULE EnvelopeProofs ---------------------------
(***************************************************************************)
(* Proofs about Envelope, for every size of a byte, every set of public    *)
(* areas none of which begins another, and every private area: what        *)
(* envelope_decode makes of an envelope that is whole or cut short, and    *)
(* that no sequence of bytes makes it panic.                               *)
(***************************************************************************)
EXTENDS Envelope, SequenceTheorems, TLAPS

-----------------------------------------------------------------------------
(* Arithmetic of the length field *)

\* Division with remainder.
LEMMA DivMod ==
    ASSUME NEW n \in Nat, NEW b \in Nat, b >= 1
    PROVE  /\ n \div b \in Nat /\ n % b \in 0..(b - 1)
           /\ n = b * (n \div b) + (n % b)
  BY SMT

\* A number below the modulus is its own remainder.
LEMMA SmallMod ==
    ASSUME NEW n \in Nat, NEW m \in Nat, n < m
    PROVE  n % m = n
  BY SMT

\* A number below the square has its quotient below the base.
LEMMA SmallDiv ==
    ASSUME NEW n \in Nat, NEW b \in Nat, b >= 1, n < b * b
    PROVE  n \div b < b
<1>1. n \div b \in Nat /\ n % b >= 0 /\ n = b * (n \div b) + (n % b)
  BY DivMod
<1> DEFINE d == n \div b
<1>2. d \in Nat /\ b * d =< n
  BY <1>1
<1> HIDE DEF d
<1>3. d >= b => b * d >= b * b
  BY <1>2
<1> QED BY <1>2, <1>3 DEF d

\* The two length bytes announce the length modulo the square of the base.
LEMMA LengthField ==
    ASSUME NEW n \in Nat
    PROVE  /\ AsU16(n) \in Nat /\ AsU16(n) =< n
           /\ n < Base * Base => AsU16(n) = n
           /\ n >= Base * Base => AsU16(n) < n
           /\ AsU16(n) \div Base \in Byte /\ AsU16(n) % Base \in Byte
           /\ FromBeBytes(AsU16(n) \div Base, AsU16(n) % Base) = AsU16(n)
<1>1. Base \in Nat /\ Base >= 2
  BY EnvelopeAssumption
<1> DEFINE m == Base * Base
           k == AsU16(n)
<1>2. m \in Nat /\ m >= 1
  BY <1>1
<1>3. k = n % m
  BY DEF AsU16
<1> HIDE DEF m, k
<1>4. k \in Nat /\ k < m
  BY <1>2, <1>3, DivMod
<1>5. n < m => k = n
  BY <1>2, <1>3, SmallMod
<1>6. k =< n /\ (n >= m => k < n)
  BY <1>2, <1>4, <1>5
<1>7. k \div Base \in Nat /\ k \div Base < Base
  BY <1>1, <1>4, DivMod, SmallDiv DEF m
<1>8. k % Base \in Byte /\ k = Base * (k \div Base) + (k % Base)
  BY <1>1, <1>4, DivMod DEF Byte
<1>9. k \div Base \in Byte
  BY <1>1, <1>7 DEF Byte
<1>10. FromBeBytes(k \div Base, k % Base) = k
  <2>1. (k \div Base) * Base = Base * (k \div Base)
    BY <1>1, <1>7
  <2> QED BY <1>8, <2>1 DEF FromBeBytes
<1> QED BY <1>4, <1>5, <1>6, <1>8, <1>9, <1>10 DEF m, k

-----------------------------------------------------------------------------
(* Prefixes *)

\* A prefix agrees with the whole where it is defined, and conversely.
LEMMA PrefixElements ==
    ASSUME NEW S, NEW s \in Seq(S), NEW t \in Seq(S)
    PROVE  IsPrefixOf(s, t) <=>
              Len(s) =< Len(t) /\ \A i \in 1..Len(s) : s[i] = t[i]
<1>1. Len(s) \in Nat /\ Len(t) \in Nat
  BY LenProperties
<1>2. ASSUME Len(s) =< Len(t)
      PROVE  /\ SubSeq(t, 1, Len(s)) \in Seq(S)
             /\ Len(SubSeq(t, 1, Len(s))) = Len(s)
             /\ \A i \in 1..Len(s) : SubSeq(t, 1, Len(s))[i] = t[i]
  <2>1. \A i \in 1..Len(s) : t[i] \in S
    BY <1>1, <1>2, ElementOfSeq
  <2> QED BY <1>1, <2>1, SubSeqProperties
<1>3. ASSUME Len(s) =< Len(t), \A i \in 1..Len(s) : s[i] = t[i]
      PROVE  s = SubSeq(t, 1, Len(s))
  BY <1>2, <1>3, SeqEqual
<1> QED BY <1>2, <1>3 DEF IsPrefixOf

\* Two public areas that begin the same bytes are the same.
LEMMA OnePublic ==
    ASSUME NEW p \in Publics, NEW r \in Publics, NEW s \in Seq(Byte),
           IsPrefixOf(s, p), IsPrefixOf(r, s)
    PROVE  r = p /\ Len(s) = Len(p)
<1>1. p \in Seq(Byte) /\ r \in Seq(Byte)
  BY EnvelopeAssumption
<1>2. Len(p) \in Nat /\ Len(r) \in Nat /\ Len(s) \in Nat
  BY <1>1, LenProperties
<1>3. /\ Len(s) =< Len(p) /\ \A i \in 1..Len(s) : s[i] = p[i]
      /\ Len(r) =< Len(s) /\ \A i \in 1..Len(r) : r[i] = s[i]
  BY <1>1, PrefixElements
<1>4. Len(r) =< Len(p) /\ \A i \in 1..Len(r) : r[i] = p[i]
  BY <1>2, <1>3
<1>5. IsPrefixOf(r, p)
  BY <1>1, <1>4, PrefixElements
<1>6. r = p
  BY <1>5, EnvelopeAssumption
<1> QED BY <1>2, <1>3, <1>6

-----------------------------------------------------------------------------
(* envelope_encode and envelope_decode *)

\* The three bytes in front.
LEMMA HeaderShape ==
    ASSUME NEW a \in Byte, NEW b \in Byte, NEW c \in Byte
    PROVE  <<a>> \o <<b, c>> = <<a, b, c>>
<1>1. /\ <<a>> \in Seq(Byte) /\ Len(<<a>>) = 1 /\ <<a>>[1] = a
      /\ <<b, c>> \in Seq(Byte) /\ Len(<<b, c>>) = 2
      /\ <<b, c>>[1] = b /\ <<b, c>>[2] = c
      /\ <<a, b, c>> \in Seq(Byte) /\ Len(<<a, b, c>>) = 3
      /\ <<a, b, c>>[1] = a /\ <<a, b, c>>[2] = b /\ <<a, b, c>>[3] = c
  OBVIOUS
<1> DEFINE s == <<a>>
           t == <<b, c>>
           u == <<a, b, c>>
<1> HIDE DEF s, t, u
<1>2. /\ s \o t \in Seq(Byte) /\ Len(s \o t) = Len(s) + Len(t)
      /\ \A i \in 1..(Len(s) + Len(t)) :
            (s \o t)[i] = IF i =< Len(s) THEN s[i] ELSE t[i - Len(s)]
  BY <1>1, ConcatProperties DEF s, t
<1>3. /\ Len(s \o t) = 3 /\ (s \o t)[1] = a
      /\ (s \o t)[2] = b /\ (s \o t)[3] = c
  <2>1. Len(s) = 1 /\ Len(t) = 2 /\ s[1] = a /\ t[1] = b /\ t[2] = c
    BY <1>1 DEF s, t
  <2> QED BY <1>2, <2>1
<1>4. \A i \in 1..3 : (s \o t)[i] = u[i]
  BY <1>1, <1>3 DEF u
<1>5. s \o t = u
  BY <1>1, <1>2, <1>3, <1>4, SeqEqual DEF u
<1> QED BY <1>5 DEF s, t, u

\* The envelope, byte by byte.
LEMMA EncodeShape ==
    ASSUME NEW p \in Publics, NEW q \in Privates
    PROVE  LET e == Encode(p, q)
               k == AsU16(Len(p))
           IN  /\ e \in Seq(Byte)
               /\ Len(e) = 3 + Len(p) + Len(q)
               /\ e[1] = Version /\ e[2] = k \div Base /\ e[3] = k % Base
               /\ \A i \in 1..Len(p) : e[3 + i] = p[i]
               /\ \A i \in 1..Len(q) : e[3 + Len(p) + i] = q[i]
<1> DEFINE k == AsU16(Len(p))
           h == <<Version, k \div Base, k % Base>>
<1>1. p \in Seq(Byte) /\ q \in Seq(Byte) /\ Version \in Byte
  BY EnvelopeAssumption
<1>2. Len(p) \in Nat /\ Len(q) \in Nat
  BY <1>1, LenProperties
<1>3. k \div Base \in Byte /\ k % Base \in Byte
  BY <1>2, LengthField
<1>4. <<Version>> \o ToBeBytes(k) = h
  BY <1>1, <1>3, HeaderShape DEF ToBeBytes
<1>5. /\ h \in Seq(Byte) /\ Len(h) = 3
      /\ h[1] = Version /\ h[2] = k \div Base /\ h[3] = k % Base
  BY <1>1, <1>3
<1>6. Encode(p, q) = (h \o p) \o q
  BY <1>4 DEF Encode
<1> HIDE DEF h, k
<1>7. /\ h \o p \in Seq(Byte) /\ Len(h \o p) = 3 + Len(p)
      /\ \A i \in 1..(3 + Len(p)) :
            (h \o p)[i] = IF i =< 3 THEN h[i] ELSE p[i - 3]
  <2>1. /\ h \o p \in Seq(Byte) /\ Len(h \o p) = Len(h) + Len(p)
        /\ \A i \in 1..(Len(h) + Len(p)) :
              (h \o p)[i] = IF i =< Len(h) THEN h[i] ELSE p[i - Len(h)]
    BY <1>1, <1>5, ConcatProperties
  <2> QED BY <1>5, <2>1
<1> DEFINE g == h \o p
<1>8. g \in Seq(Byte) /\ Len(g) = 3 + Len(p)
  BY <1>7
<1>9. \A i \in 1..(3 + Len(p)) : g[i] = IF i =< 3 THEN h[i] ELSE p[i - 3]
  BY <1>7
<1> HIDE DEF g
<1>10. /\ g \o q \in Seq(Byte) /\ Len(g \o q) = 3 + Len(p) + Len(q)
       /\ \A i \in 1..(3 + Len(p) + Len(q)) :
             (g \o q)[i] = IF i =< 3 + Len(p) THEN g[i] ELSE q[i - (3 + Len(p))]
  <2>1. /\ g \o q \in Seq(Byte) /\ Len(g \o q) = Len(g) + Len(q)
        /\ \A i \in 1..(Len(g) + Len(q)) :
              (g \o q)[i] = IF i =< Len(g) THEN g[i] ELSE q[i - Len(g)]
    BY <1>1, <1>8, ConcatProperties
  <2> QED BY <1>8, <2>1
<1> DEFINE e == g \o q
<1>11. e \in Seq(Byte) /\ Len(e) = 3 + Len(p) + Len(q)
  BY <1>10
<1>12. \A i \in 1..(3 + Len(p) + Len(q)) :
          e[i] = IF i =< 3 + Len(p) THEN g[i] ELSE q[i - (3 + Len(p))]
  BY <1>10
<1>13. Encode(p, q) = e
  BY <1>6 DEF g
<1> HIDE DEF e
<1>14. e[1] = Version /\ e[2] = k \div Base /\ e[3] = k % Base
  BY <1>2, <1>5, <1>9, <1>12
<1>15. \A i \in 1..Len(p) : e[3 + i] = p[i]
  <2> SUFFICES ASSUME NEW i \in 1..Len(p) PROVE e[3 + i] = p[i]
    OBVIOUS
  <2>1. /\ 3 + i \in 1..(3 + Len(p)) /\ 3 + i \in 1..(3 + Len(p) + Len(q))
        /\ (3 + i) - 3 = i /\ ~(3 + i =< 3) /\ 3 + i =< 3 + Len(p)
    BY <1>2
  <2>2. e[3 + i] = g[3 + i]
    BY <1>12, <2>1
  <2>3. g[3 + i] = p[(3 + i) - 3]
    BY <1>9, <2>1
  <2> QED BY <2>1, <2>2, <2>3
<1>16. \A i \in 1..Len(q) : e[3 + Len(p) + i] = q[i]
  <2> SUFFICES ASSUME NEW i \in 1..Len(q) PROVE e[3 + Len(p) + i] = q[i]
    OBVIOUS
  <2>1. /\ 3 + Len(p) + i \in 1..(3 + Len(p) + Len(q))
        /\ (3 + Len(p) + i) - (3 + Len(p)) = i
        /\ ~(3 + Len(p) + i =< 3 + Len(p))
    BY <1>2
  <2>2. e[3 + Len(p) + i] = q[(3 + Len(p) + i) - (3 + Len(p))]
    BY <1>12, <2>1
  <2> QED BY <2>1, <2>2
<1> QED BY <1>11, <1>13, <1>14, <1>15, <1>16 DEF k

\* Whatever the bytes, decoding yields one of two outcomes.
LEMMA DecodeTotal ==
    ASSUME NEW bs \in Seq(Byte)
    PROVE  Decode(bs).status # "panic"
<1>1. Len(bs) \in Nat /\ Base \in Nat
  BY LenProperties, EnvelopeAssumption
<1>2. MalformedEnvelope.status = "malformed"
  BY DEF MalformedEnvelope
<1>3. CASE Len(bs) < 3
  BY <1>2, <1>3 DEF Decode
<1>4. CASE ~(Len(bs) < 3)
  <2> DEFINE n == FromBeBytes(bs[2], bs[3])
  <2>1. bs[2] \in Nat /\ bs[3] \in Nat
    <3>1. bs[2] \in Byte /\ bs[3] \in Byte
      BY <1>1, <1>4, ElementOfSeq
    <3> QED BY <1>1, <3>1 DEF Byte
  <2>2. n \in Nat
    BY <1>1, <2>1 DEF FromBeBytes
  <2>3. Decode(bs) = IF bs[1] # Version \/ TooShort(bs, n)
                       THEN MalformedEnvelope ELSE Parse(bs, n)
    BY <1>4 DEF Decode
  <2> HIDE DEF n
  <2>4. CASE bs[1] # Version \/ TooShort(bs, n)
    BY <1>2, <2>3, <2>4
  <2>5. CASE ~(bs[1] # Version \/ TooShort(bs, n))
    <3>1. ~(3 + n > Len(bs))
      BY <1>1, <2>2, <2>5 DEF TooShort
    <3>2. \/ Parse(bs, n) = MalformedEnvelope
          \/ \E p, q : Parse(bs, n) = Ok(p, q)
      BY <3>1 DEF Parse
    <3>3. \A p, q : Ok(p, q).status = "ok"
      BY DEF Ok
    <3> QED BY <1>2, <2>3, <2>5, <3>2, <3>3
  <2> QED BY <2>4, <2>5
<1> QED BY <1>3, <1>4

\* Behind the public area of an envelope that was cut at most in its private
\* area there is a beginning of the private area.
LEMMA PrivateTail ==
    ASSUME NEW p \in Publics, NEW q \in Privates, NEW bs \in Seq(Byte),
           IsPrefixOf(bs, Encode(p, q)), Len(bs) >= 3 + Len(p)
    PROVE  LET r == SubSeq(bs, 4 + Len(p), Len(bs))
           IN  /\ r \in Seq(Byte) /\ Len(r) = Len(bs) - (3 + Len(p))
               /\ IsPrefixOf(r, q) /\ Len(r) =< MaxPrivate
<1> DEFINE e == Encode(p, q)
           r == SubSeq(bs, 4 + Len(p), Len(bs))
<1>1. /\ p \in Seq(Byte) /\ q \in Seq(Byte)
      /\ Len(q) =< MaxPrivate /\ MaxPrivate \in Nat
  BY EnvelopeAssumption
<1>2. Len(p) \in Nat /\ Len(q) \in Nat /\ Len(bs) \in Nat
  BY <1>1, LenProperties
<1>3. /\ e \in Seq(Byte) /\ Len(e) = 3 + Len(p) + Len(q)
      /\ \A i \in 1..Len(q) : e[3 + Len(p) + i] = q[i]
  BY EncodeShape
<1>4. Len(bs) =< Len(e) /\ \A i \in 1..Len(bs) : bs[i] = e[i]
  BY <1>3, PrefixElements
<1> HIDE DEF e
<1>5. \A i \in (4 + Len(p))..Len(bs) : bs[i] \in Byte
  BY <1>2, ElementOfSeq
<1>6. /\ r \in Seq(Byte) /\ Len(r) = Len(bs) - (3 + Len(p))
      /\ \A i \in 1..(Len(bs) - (3 + Len(p))) : r[i] = bs[3 + Len(p) + i]
  <2>1. 4 + Len(p) \in Int /\ Len(bs) \in Int
    BY <1>2
  <2>2. /\ r \in Seq(Byte)
        /\ Len(r) = IF 4 + Len(p) <= Len(bs) THEN Len(bs) - (4 + Len(p)) + 1 ELSE 0
        /\ \A i \in 1..(Len(bs) - (4 + Len(p)) + 1) :
              r[i] = bs[(4 + Len(p)) + i - 1]
    BY <1>5, <2>1, SubSeqProperties
  <2> HIDE DEF r
  <2>3. Len(r) = Len(bs) - (3 + Len(p))
    BY <1>2, <2>2
  <2>4. ASSUME NEW i \in 1..(Len(bs) - (3 + Len(p)))
        PROVE  r[i] = bs[3 + Len(p) + i]
    <3>1. /\ i \in 1..(Len(bs) - (4 + Len(p)) + 1)
          /\ (4 + Len(p)) + i - 1 = 3 + Len(p) + i
      BY <1>2, <2>4
    <3> QED BY <2>2, <3>1
  <2> QED BY <2>2, <2>3, <2>4
<1> HIDE DEF r
<1>7. Len(r) \in Nat /\ Len(r) =< Len(q)
  BY <1>2, <1>3, <1>4, <1>6
<1>8. \A i \in 1..Len(r) : r[i] = q[i]
  <2> SUFFICES ASSUME NEW i \in 1..Len(r) PROVE r[i] = q[i]
    OBVIOUS
  <2>1. /\ i \in 1..(Len(bs) - (3 + Len(p))) /\ i \in 1..Len(q)
        /\ 3 + Len(p) + i \in 1..Len(bs)
    BY <1>2, <1>6, <1>7
  <2> QED BY <1>3, <1>4, <1>6, <2>1
<1>9. IsPrefixOf(r, q)
  BY <1>1, <1>6, <1>7, <1>8, PrefixElements
<1> QED BY <1>1, <1>2, <1>6, <1>7, <1>9 DEF r

\* What decoding makes of an envelope that is whole or cut short.
LEMMA DecodePrefix ==
    ASSUME NEW p \in Publics, NEW q \in Privates, NEW bs \in Seq(Byte),
           IsPrefixOf(bs, Encode(p, q))
    PROVE  Decode(bs) =
              IF Len(bs) >= 3 + Len(p) /\ Len(p) < Base * Base
                THEN Ok(p, SubSeq(bs, 4 + Len(p), Len(bs)))
                ELSE MalformedEnvelope
<1> DEFINE e == Encode(p, q)
           k == AsU16(Len(p))
<1>1. /\ p \in Seq(Byte) /\ q \in Seq(Byte)
      /\ Len(p) \in Nat /\ Len(q) \in Nat /\ Len(bs) \in Nat
      /\ Base \in Nat /\ Base * Base \in Nat
  BY EnvelopeAssumption, LenProperties
<1>2. /\ e \in Seq(Byte) /\ Len(e) = 3 + Len(p) + Len(q)
      /\ e[1] = Version /\ e[2] = k \div Base /\ e[3] = k % Base
      /\ \A i \in 1..Len(p) : e[3 + i] = p[i]
  BY EncodeShape
<1>3. Len(bs) =< Len(e) /\ \A i \in 1..Len(bs) : bs[i] = e[i]
  BY <1>2, PrefixElements
<1>4. /\ k \in Nat /\ k =< Len(p)
      /\ Len(p) < Base * Base => k = Len(p)
      /\ Len(p) >= Base * Base => k < Len(p)
      /\ FromBeBytes(k \div Base, k % Base) = k
  BY <1>1, LengthField
<1> HIDE DEF e, k
<1>5. CASE Len(bs) < 3
  BY <1>1, <1>5 DEF Decode
<1>6. CASE ~(Len(bs) < 3)
  <2>1. bs[1] = Version /\ bs[2] = k \div Base /\ bs[3] = k % Base
    BY <1>1, <1>2, <1>3, <1>6
  <2>2. Decode(bs) = IF TooShort(bs, k) THEN MalformedEnvelope ELSE Parse(bs, k)
    BY <1>4, <1>6, <2>1 DEF Decode
  <2>3. CASE Len(bs) < 3 + k
    BY <1>1, <1>4, <2>2, <2>3 DEF TooShort
  <2>4. CASE ~(Len(bs) < 3 + k)
    <3> DEFINE pub == SubSeq(bs, 4, 3 + k)
               priv == SubSeq(bs, 4 + k, Len(bs))
    <3>1. /\ pub \in Seq(Byte) /\ Len(pub) = k
          /\ \A i \in 1..k : pub[i] = p[i]
      <4>1. \A i \in 4..(3 + k) : bs[i] \in Byte
        BY <1>1, <1>4, <2>4, ElementOfSeq
      <4>2. /\ pub \in Seq(Byte)
            /\ Len(pub) = IF 4 <= 3 + k THEN (3 + k) - 4 + 1 ELSE 0
            /\ \A i \in 1..((3 + k) - 4 + 1) : pub[i] = bs[4 + i - 1]
        <5> DEFINE n == 3 + k
        <5>1. 4 \in Int /\ n \in Int
          BY <1>4
        <5>2. \A i \in 4..n : bs[i] \in Byte
          BY <4>1
        <5> HIDE DEF n
        <5>3. /\ SubSeq(bs, 4, n) \in Seq(Byte)
              /\ Len(SubSeq(bs, 4, n)) = IF 4 <= n THEN n - 4 + 1 ELSE 0
              /\ \A i \in 1..(n - 4 + 1) : SubSeq(bs, 4, n)[i] = bs[4 + i - 1]
          BY <5>1, <5>2, SubSeqProperties
        <5> QED BY <5>3 DEF n
      <4> HIDE DEF pub
      <4>3. Len(pub) = k
        BY <1>4, <4>2
      <4>4. ASSUME NEW i \in 1..k PROVE pub[i] = p[i]
        <5>1. /\ i \in 1..((3 + k) - 4 + 1) /\ 4 + i - 1 = 3 + i
              /\ 3 + i \in 1..Len(bs) /\ i \in 1..Len(p)
          BY <1>1, <1>4, <2>4, <4>4
        <5> QED BY <1>2, <1>3, <4>2, <5>1
      <4> QED BY <4>2, <4>3, <4>4
    <3>2. IsPrefixOf(pub, p)
      BY <1>1, <1>4, <3>1, PrefixElements
    <3>3. Decode(bs) = IF Unmarshalled(pub) = {} \/ Len(priv) > MaxPrivate
                         THEN MalformedEnvelope
                         ELSE Ok(CHOOSE r \in Unmarshalled(pub) : TRUE, priv)
      BY <1>1, <1>4, <2>2, <2>4 DEF TooShort, Parse
    <3> HIDE DEF pub, priv
    <3>4. \A r \in Unmarshalled(pub) : r = p /\ k = Len(p)
      BY <3>1, <3>2, OnePublic DEF Unmarshalled
    <3>5. CASE Len(p) < Base * Base
      <4>1. k = Len(p)
        BY <1>4, <3>5
      <4>2. pub = p
        BY <1>1, <3>1, <4>1, SeqEqual
      <4>3. p \in Unmarshalled(pub)
        <5>1. IsPrefixOf(p, p)
          BY <1>1, PrefixElements
        <5> QED BY <4>2, <5>1 DEF Unmarshalled
      <4>4. Unmarshalled(pub) = {p}
        BY <3>4, <4>3
      <4>5. ~(Len(priv) > MaxPrivate)
        <5>1. Len(bs) >= 3 + Len(p)
          BY <1>1, <2>4, <4>1
        <5>2. /\ Len(priv) = Len(bs) - (3 + Len(p))
              /\ Len(priv) =< MaxPrivate
          BY <4>1, <5>1, PrivateTail DEF priv
        <5>3. MaxPrivate \in Nat
          BY EnvelopeAssumption
        <5> QED BY <1>1, <5>2, <5>3
      <4>6. (CHOOSE r \in Unmarshalled(pub) : TRUE) = p
        BY <4>4
      <4>7. Decode(bs) = Ok(p, priv)
        BY <3>3, <4>3, <4>5, <4>6
      <4> QED BY <1>1, <2>4, <3>5, <4>1, <4>7 DEF priv
    <3>6. CASE ~(Len(p) < Base * Base)
      <4>1. k < Len(p)
        BY <1>1, <1>4, <3>6
      <4>2. Unmarshalled(pub) = {}
        BY <1>1, <1>4, <3>4, <4>1
      <4> QED BY <3>3, <3>6, <4>2
    <3> QED BY <3>5, <3>6
  <2> QED BY <2>3, <2>4
<1> QED BY <1>5, <1>6

-----------------------------------------------------------------------------
(* An envelope's life *)

\* Bytes that were only lost are a beginning of the envelope.
StoredInv ==
    /\ stored \in Seq(Byte)
    /\ state \in {"none", "intact", "cut", "changed"}
    /\ state = "none" => stored = <<>>
    /\ state # "none" => public \in Publics /\ private \in Privates
    /\ state = "intact" => stored = Encode(public, private)
    /\ state = "cut" => IsPrefixOf(stored, Encode(public, private))

\* A beginning of a beginning is one.
LEMMA CutAgain ==
    ASSUME NEW t \in Seq(Byte), NEW s \in Seq(Byte), IsPrefixOf(s, t),
           NEW n \in 0..(Len(s) - 1)
    PROVE  SubSeq(s, 1, n) \in Seq(Byte) /\ IsPrefixOf(SubSeq(s, 1, n), t)
<1>1. Len(s) \in Nat /\ Len(t) \in Nat /\ n \in Nat /\ n =< Len(s)
  BY LenProperties
<1>2. \A i \in 1..n : s[i] \in Byte
  BY <1>1, ElementOfSeq
<1> DEFINE r == SubSeq(s, 1, n)
<1>3. r \in Seq(Byte) /\ Len(r) = n /\ \A i \in 1..n : r[i] = s[i]
  BY <1>1, <1>2, SubSeqProperties
<1> HIDE DEF r
<1>4. Len(s) =< Len(t) /\ \A i \in 1..Len(s) : s[i] = t[i]
  BY PrefixElements
<1>5. Len(r) =< Len(t) /\ \A i \in 1..Len(r) : r[i] = t[i]
  BY <1>1, <1>3, <1>4
<1>6. IsPrefixOf(r, t)
  BY <1>3, <1>5, PrefixElements
<1> QED BY <1>3, <1>6 DEF r

\* A whole envelope is a beginning of itself.
LEMMA WholeIsPrefix ==
    ASSUME NEW s \in Seq(Byte) PROVE IsPrefixOf(s, s)
<1>1. Len(s) \in Nat
  BY LenProperties
<1> QED BY <1>1, PrefixElements

\* Sealing, losing the tail and changing a byte keep the invariant.
LEMMA StoredStep == StoredInv /\ [EnvelopeNext]_envelope => StoredInv'
<1> SUFFICES ASSUME StoredInv, [EnvelopeNext]_envelope PROVE StoredInv'
  OBVIOUS
<1>1. /\ stored \in Seq(Byte)
      /\ \A p \in Publics, q \in Privates : Encode(p, q) \in Seq(Byte)
  BY EncodeShape DEF StoredInv
<1>2. CASE UNCHANGED envelope
  BY <1>2 DEF envelope, StoredInv
<1>3. CASE Store
  BY <1>1, <1>3 DEF Store, StoredInv
<1>4. CASE Truncate
  <2>1. PICK n \in 0..(Len(stored) - 1) : stored' = SubSeq(stored, 1, n)
    BY <1>4 DEF Truncate
  <2>2. /\ public \in Publics /\ private \in Privates
        /\ Encode(public, private) \in Seq(Byte)
        /\ IsPrefixOf(stored, Encode(public, private))
    BY <1>1, <1>4, WholeIsPrefix DEF Truncate, StoredInv
  <2>3. stored' \in Seq(Byte) /\ IsPrefixOf(stored', Encode(public, private))
    BY <1>1, <2>1, <2>2, CutAgain
  <2> QED BY <1>1, <1>4, <2>3 DEF Truncate, StoredInv
<1>5. CASE Change
  <2>1. PICK i \in 1..Len(stored), b \in Byte :
           stored' = [stored EXCEPT ![i] = b]
    BY <1>5 DEF Change
  <2>2. stored' \in Seq(Byte)
    BY <1>1, <2>1, ExceptSeq
  <2> QED BY <1>1, <1>5, <2>2 DEF Change, StoredInv
<1> QED BY <1>2, <1>3, <1>4, <1>5 DEF EnvelopeNext

\* What storage holds is bytes, and a beginning of the envelope unless a byte
\* was changed.
THEOREM StoredInvariant == EnvelopeSpec => []StoredInv
<1>1. EnvelopeInit => StoredInv
  BY EmptySeq DEF EnvelopeInit, StoredInv
<1> QED BY <1>1, StoredStep, PTL DEF EnvelopeSpec

\* What was sealed is read back, or rejected when its public area is longer
\* than the u16 can announce, for every base and every length.
THEOREM RoundTrip == EnvelopeSpec => []ReadBackOrRejected
<1>1. ASSUME StoredInv PROVE ReadBackOrRejected
  <2> SUFFICES ASSUME state = "intact"
               PROVE  Decode(stored) = IF Len(public) < Base * Base
                                         THEN Ok(public, private)
                                         ELSE MalformedEnvelope
    BY DEF ReadBackOrRejected
  <2>1. /\ public \in Publics /\ private \in Privates
        /\ stored \in Seq(Byte) /\ stored = Encode(public, private)
    BY <1>1 DEF StoredInv
  <2>2. /\ public \in Seq(Byte) /\ private \in Seq(Byte)
        /\ Len(public) \in Nat /\ Len(private) \in Nat
    BY <2>1, EnvelopeAssumption, LenProperties
  <2>3. Len(stored) = 3 + Len(public) + Len(private)
    BY <2>1, EncodeShape
  <2>4. IsPrefixOf(stored, Encode(public, private))
    BY <2>1, WholeIsPrefix
  <2>5. Len(stored) >= 3 + Len(public)
    BY <2>2, <2>3
  <2>6. Decode(stored) =
           IF Len(public) < Base * Base
             THEN Ok(public, SubSeq(stored, 4 + Len(public), Len(stored)))
             ELSE MalformedEnvelope
    BY <2>1, <2>4, <2>5, DecodePrefix
  <2> DEFINE r == SubSeq(stored, 4 + Len(public), Len(stored))
  <2>7. /\ r \in Seq(Byte) /\ Len(r) = Len(stored) - (3 + Len(public))
        /\ IsPrefixOf(r, private)
    BY <2>1, <2>4, <2>5, PrivateTail
  <2> HIDE DEF r
  <2>8. Len(r) = Len(private)
    BY <2>2, <2>3, <2>7
  <2>9. r = private
    BY <2>2, <2>7, <2>8, PrefixElements, SeqEqual
  <2> QED BY <2>6, <2>9 DEF r
<1> QED BY <1>1, StoredInvariant, PTL

\* No bytes make the decoder panic, and a cut envelope is rejected or loses
\* only part of its private area.
THEOREM DamageHandled == EnvelopeSpec => []DamageIsNeverMisread
<1>1. ASSUME StoredInv PROVE DamageIsNeverMisread
  <2>1. stored \in Seq(Byte)
    BY <1>1 DEF StoredInv
  <2>2. Decode(stored).status # "panic"
    BY <2>1, DecodeTotal
  <2>3. ASSUME state = "cut", Decode(stored).status = "ok"
        PROVE  /\ Decode(stored).public = public
               /\ IsPrefixOf(Decode(stored).private, private)
               /\ Len(stored) >= 3 + Len(public)
    <3> DEFINE r == SubSeq(stored, 4 + Len(public), Len(stored))
    <3>1. /\ public \in Publics /\ private \in Privates
          /\ IsPrefixOf(stored, Encode(public, private))
      BY <1>1, <2>3 DEF StoredInv
    <3>2. MalformedEnvelope.status # "ok"
      BY DEF MalformedEnvelope
    <3>3. Len(stored) >= 3 + Len(public) /\ Decode(stored) = Ok(public, r)
      BY <2>1, <2>3, <3>1, <3>2, DecodePrefix
    <3>4. IsPrefixOf(r, private)
      BY <2>1, <3>1, <3>3, PrivateTail
    <3> HIDE DEF r
    <3>5. Ok(public, r).public = public /\ Ok(public, r).private = r
      BY DEF Ok
    <3> QED BY <3>3, <3>4, <3>5
  <2> QED BY <2>2, <2>3 DEF DamageIsNeverMisread
<1> QED BY <1>1, StoredInvariant, PTL
=============================================================================
