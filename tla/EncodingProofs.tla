--------------------------- MODULE EncodingProofs ---------------------------
(***************************************************************************)
(* What was encoded is decoded to what it was, so that the claims of a     *)
(* token are those it was signed with and a password is accepted against   *)
(* its own stored hash and against no other derived key.                   *)
(***************************************************************************)
EXTENDS Encoding, SequenceTheorems, TLAPS

-----------------------------------------------------------------------------
(* Hexadecimal.                                                            *)

LEMMA Nibbles ==
    ASSUME NEW b \in 0 .. 255
    PROVE  /\ b \div 16 \in 0 .. 15
           /\ b % 16 \in 0 .. 15
           /\ 16 * (b \div 16) + (b % 16) = b
OBVIOUS

LEMMA FunctionIsSeq ==
    ASSUME NEW S, NEW n \in Nat, NEW f \in [1 .. n -> S]
    PROVE  f \in Seq(S) /\ Len(f) = n
OBVIOUS

LEMMA ToHexType ==
    ASSUME NEW s \in Seq(Byte)
    PROVE  /\ ToHex(s) \in Seq(0 .. 15)
           /\ Len(ToHex(s)) = 2 * Len(s)
           /\ \A i \in 1 .. Len(s) : /\ ToHex(s)[2 * i - 1] = s[i] \div 16
                                     /\ ToHex(s)[2 * i] = s[i] % 16
<1> DEFINE h == ToHex(s)
<1>1. Len(s) \in Nat /\ \A i \in 1 .. Len(s) : s[i] \in Byte
  OBVIOUS
<1>2. ASSUME NEW k \in 1 .. 2 * Len(s)
      PROVE  h[k] \in 0 .. 15
  <2>1. CASE k % 2 = 1
    <3>1. (k + 1) \div 2 \in 1 .. Len(s)
      BY <1>1, <2>1
    <3>2. s[(k + 1) \div 2] \in 0 .. 255
      BY <1>1, <3>1 DEF Byte
    <3>3. h[k] = s[(k + 1) \div 2] \div 16
      BY <2>1 DEF ToHex
    <3> DEFINE b == s[(k + 1) \div 2]
    <3> HIDE DEF b
    <3>4. b \div 16 \in 0 .. 15
      BY <3>2, Nibbles DEF b
    <3> QED
      BY <3>3, <3>4 DEF b
  <2>2. CASE k % 2 # 1
    <3>1. k \div 2 \in 1 .. Len(s)
      BY <1>1, <2>2
    <3>2. s[k \div 2] \in 0 .. 255
      BY <1>1, <3>1 DEF Byte
    <3>3. h[k] = s[k \div 2] % 16
      BY <2>2 DEF ToHex
    <3> DEFINE b == s[k \div 2]
    <3> HIDE DEF b
    <3>4. b % 16 \in 0 .. 15
      BY <3>2, Nibbles DEF b
    <3> QED
      BY <3>3, <3>4 DEF b
  <2> QED
    BY <2>1, <2>2
<1>3. h \in [1 .. 2 * Len(s) -> 0 .. 15]
  BY <1>2 DEF ToHex
<1> HIDE DEF h
<1>4. h \in Seq(0 .. 15) /\ Len(h) = 2 * Len(s)
  <2>1. 2 * Len(s) \in Nat
    BY <1>1
  <2> QED
    BY <1>3, <2>1, FunctionIsSeq
<1>5. ASSUME NEW i \in 1 .. Len(s)
      PROVE  h[2 * i - 1] = s[i] \div 16 /\ h[2 * i] = s[i] % 16
  <2>1. 2 * i - 1 \in 1 .. 2 * Len(s) /\ 2 * i \in 1 .. 2 * Len(s)
    BY <1>1
  <2>2. (2 * i - 1) % 2 = 1 /\ (2 * i) % 2 = 0 /\ (2 * i - 1 + 1) \div 2 = i /\ (2 * i) \div 2 = i
    BY <1>1
  <2> QED
    BY <2>1, <2>2 DEF ToHex, h
<1> QED
  BY <1>4, <1>5 DEF h

(* Bytes written in hexadecimal are read back as they were.                *)
THEOREM HexRoundTrip ==
    ASSUME NEW s \in Seq(Byte)
    PROVE  FromHex(ToHex(s)) = s
<1> DEFINE h == ToHex(s)
<1>1. Len(h) = 2 * Len(s) /\ Len(s) \in Nat
  BY ToHexType
<1>2. (Len(h) + 1) \div 2 = Len(s)
  BY <1>1
<1>3. ASSUME NEW i \in 1 .. Len(s)
      PROVE  FromHex(h)[i] = s[i]
  <2>1. h[2 * i - 1] = s[i] \div 16 /\ h[2 * i] = s[i] % 16
    BY ToHexType
  <2>2. s[i] \in 0 .. 255
    <3>1. s[i] \in Byte
      OBVIOUS
    <3> QED
      BY <3>1 DEF Byte
  <2>3. 16 * (s[i] \div 16) + (s[i] % 16) = s[i]
    BY <2>2, Nibbles
  <2> HIDE DEF h
  <2>4. FromHex(h)[i] = 16 * h[2 * i - 1] + h[2 * i]
    BY <1>1, <1>2 DEF FromHex
  <2> QED
    BY <2>1, <2>3, <2>4 DEF h
<1>4. DOMAIN FromHex(h) = 1 .. Len(s)
  BY <1>2 DEF FromHex
<1>5. DOMAIN s = 1 .. Len(s) /\ s \in [1 .. Len(s) -> Byte]
  OBVIOUS
<1>6. FromHex(h) = [i \in 1 .. Len(s) |-> FromHex(h)[i]]
  BY <1>4 DEF FromHex
<1>7. s = [i \in 1 .. Len(s) |-> s[i]]
  BY <1>5
<1> QED
  BY <1>3, <1>6, <1>7

(* SameText is equality of strings.                                        *)
LEMMA SameTextIsEqual ==
    ASSUME NEW S, NEW a \in Seq(S), NEW b \in Seq(S)
    PROVE  SameText(a, b) <=> a = b
<1>1. a = [i \in 1 .. Len(a) |-> a[i]] /\ b = [i \in 1 .. Len(b) |-> b[i]]
  OBVIOUS
<1> QED
  BY <1>1 DEF SameText

(* A password is accepted against a hash exactly if the derived keys       *)
(* agree; the salt must not be empty, and SALT_LENGTH_BYTES is 16.         *)
THEOREM PasswordVerified ==
    ASSUME NEW kdf, NEW p, NEW q, NEW n,
           NEW salt \in Seq(Byte), salt # <<>>,
           kdf[<<p, salt, n>>] \in Seq(Byte), kdf[<<q, salt, n>>] \in Seq(Byte)
    PROVE  VerifyPassword(kdf, q, HashPassword(kdf, p, salt, n))
              <=> kdf[<<q, salt, n>>] = kdf[<<p, salt, n>>]
<1> DEFINE a == kdf[<<q, salt, n>>]
           b == kdf[<<p, salt, n>>]
           stored == HashPassword(kdf, p, salt, n)
<1>1. FromHex(stored.salt) = salt
  BY HexRoundTrip DEF HashPassword
<1>2. stored.key = ToHex(b) /\ stored.iterations = n
  BY DEF HashPassword
<1>3. VerifyPassword(kdf, q, stored) <=> SameText(ToHex(a), ToHex(b))
  BY <1>1, <1>2 DEF VerifyPassword
<1>4. ToHex(a) \in Seq(0 .. 15) /\ ToHex(b) \in Seq(0 .. 15)
  BY ToHexType
<1>5. SameText(ToHex(a), ToHex(b)) <=> ToHex(a) = ToHex(b)
  BY <1>4, SameTextIsEqual
<1>6. FromHex(ToHex(a)) = a /\ FromHex(ToHex(b)) = b
  BY HexRoundTrip
<1> QED
  BY <1>3, <1>5, <1>6

-----------------------------------------------------------------------------
(* Base64.  Three bytes make four digits, and every byte is in two of them.*)

LEMMA Digits ==
    ASSUME NEW a \in 0 .. 255, NEW b \in 0 .. 255, NEW c \in 0 .. 255
    PROVE  /\ a \div 4 \in Alphabet
           /\ 16 * (a % 4) + (b \div 16) \in Alphabet
           /\ 4 * (b % 16) + (c \div 64) \in Alphabet
           /\ c % 64 \in Alphabet
BY DEF Alphabet

LEMMA OctetType ==
    ASSUME NEW s \in Seq(Byte), NEW i \in Nat \ {0}
    PROVE  Octet(s, i) \in 0 .. 255
<1>1. Len(s) \in Nat /\ \A k \in 1 .. Len(s) : s[k] \in Byte
  OBVIOUS
<1> QED
  BY <1>1 DEF Octet, Byte

(* The digits of the group after the q-th.                                 *)
LEMMA GroupDigits ==
    ASSUME NEW s, NEW q \in Nat
    PROVE  /\ Digit(s, 4 * q + 1) = Octet(s, 3 * q + 1) \div 4
           /\ Digit(s, 4 * q + 2) = 16 * (Octet(s, 3 * q + 1) % 4) + (Octet(s, 3 * q + 2) \div 16)
           /\ Digit(s, 4 * q + 3) = 4 * (Octet(s, 3 * q + 2) % 16) + (Octet(s, 3 * q + 3) \div 64)
           /\ Digit(s, 4 * q + 4) = Octet(s, 3 * q + 3) % 64
<1>1. (4 * q + 1 - 1) \div 4 = q /\ (4 * q + 1 - 1) % 4 = 0
  OBVIOUS
<1>2. (4 * q + 2 - 1) \div 4 = q /\ (4 * q + 2 - 1) % 4 = 1
  OBVIOUS
<1>3. (4 * q + 3 - 1) \div 4 = q /\ (4 * q + 3 - 1) % 4 = 2
  OBVIOUS
<1>4. (4 * q + 4 - 1) \div 4 = q /\ (4 * q + 4 - 1) % 4 = 3
  OBVIOUS
<1> QED
  BY <1>1, <1>2, <1>3, <1>4 DEF Digit

LEMMA DigitType ==
    ASSUME NEW s \in Seq(Byte), NEW k \in Nat \ {0}
    PROVE  Digit(s, k) \in Alphabet
<1> DEFINE q == (k - 1) \div 4
<1>1. q \in Nat /\ k \in {4 * q + 1, 4 * q + 2, 4 * q + 3, 4 * q + 4}
  OBVIOUS
<1> HIDE DEF q
<1>2. Octet(s, 3 * q + 1) \in 0 .. 255 /\ Octet(s, 3 * q + 2) \in 0 .. 255
         /\ Octet(s, 3 * q + 3) \in 0 .. 255
  <2>1. 3 * q + 1 \in Nat \ {0} /\ 3 * q + 2 \in Nat \ {0} /\ 3 * q + 3 \in Nat \ {0}
    BY <1>1
  <2> QED
    BY <2>1, OctetType
<1> DEFINE a == Octet(s, 3 * q + 1)
           b == Octet(s, 3 * q + 2)
           c == Octet(s, 3 * q + 3)
<1>3. /\ Digit(s, 4 * q + 1) = a \div 4
      /\ Digit(s, 4 * q + 2) = 16 * (a % 4) + (b \div 16)
      /\ Digit(s, 4 * q + 3) = 4 * (b % 16) + (c \div 64)
      /\ Digit(s, 4 * q + 4) = c % 64
  BY <1>1, GroupDigits
<1> HIDE DEF a, b, c
<1>4. a \in 0 .. 255 /\ b \in 0 .. 255 /\ c \in 0 .. 255
  BY <1>2 DEF a, b, c
<1>5. /\ a \div 4 \in Alphabet
      /\ 16 * (a % 4) + (b \div 16) \in Alphabet
      /\ 4 * (b % 16) + (c \div 64) \in Alphabet
      /\ c % 64 \in Alphabet
  BY <1>4, Digits, ZenonT(60)
<1> QED
  BY <1>1, <1>3, <1>5

(* As many bytes are read as were written, and every digit a byte needs is *)
(* there.                                                                  *)
LEMMA Counts ==
    ASSUME NEW n \in Nat
    PROVE  /\ DigitCount(n) \in Nat
           /\ DigitCount(n) <= 4 * ((n + 2) \div 3)
           /\ ByteCount(DigitCount(n)) = n
<1> DEFINE m == n \div 3
           e == n % 3
<1>1. m \in Nat /\ e \in {0, 1, 2} /\ n = 3 * m + e
  OBVIOUS
<1>2. DigitCount(n) = 4 * m + (IF e = 0 THEN 0 ELSE e + 1)
  BY DEF DigitCount
<1> HIDE DEF m, e
<1>3. CASE e = 0
  <2>1. DigitCount(n) = 4 * m
    BY <1>1, <1>2, <1>3
  <2>2. (4 * m) \div 4 = m /\ (4 * m) % 4 = 0 /\ (3 * m + 2) \div 3 = m
    BY <1>1
  <2> QED
    BY <1>1, <1>3, <2>1, <2>2 DEF ByteCount
<1>4. CASE e = 1
  <2>1. DigitCount(n) = 4 * m + 2
    BY <1>1, <1>2, <1>4
  <2>2. (4 * m + 2) \div 4 = m /\ (4 * m + 2) % 4 = 2 /\ (3 * m + 1 + 2) \div 3 = m + 1
    BY <1>1
  <2> QED
    BY <1>1, <1>4, <2>1, <2>2 DEF ByteCount
<1>5. CASE e = 2
  <2>1. DigitCount(n) = 4 * m + 3
    BY <1>1, <1>2, <1>5
  <2>2. (4 * m + 3) \div 4 = m /\ (4 * m + 3) % 4 = 3 /\ (3 * m + 2 + 2) \div 3 = m + 1
    BY <1>1
  <2> QED
    BY <1>1, <1>5, <2>1, <2>2 DEF ByteCount
<1> QED
  BY <1>1, <1>3, <1>4, <1>5

LEMMA DigitsSuffice ==
    ASSUME NEW n \in Nat, NEW q \in Nat
    PROVE  /\ 3 * q + 1 <= n => 4 * q + 2 <= DigitCount(n)
           /\ 3 * q + 2 <= n => 4 * q + 3 <= DigitCount(n)
           /\ 3 * q + 3 <= n => 4 * q + 4 <= DigitCount(n)
<1> DEFINE m == n \div 3
           e == n % 3
<1>1. m \in Nat /\ e \in {0, 1, 2} /\ n = 3 * m + e
  OBVIOUS
<1>2. DigitCount(n) = 4 * m + (IF e = 0 THEN 0 ELSE e + 1)
  BY DEF DigitCount
<1> HIDE DEF m, e
<1> QED
  BY <1>1, <1>2

LEMMA UrlCharacters ==
    ASSUME NEW x \in Alphabet
    PROVE  FromUrl(ToUrl(x)) = x /\ ToUrl(x) \in 0 .. 65
BY DEF Alphabet, FromUrl, ToUrl, Minus, Underscore

LEMMA UrlEncodeType ==
    ASSUME NEW s \in Seq(Byte)
    PROVE  /\ UrlEncode(s) \in Seq(0 .. 65)
           /\ Len(UrlEncode(s)) = DigitCount(Len(s))
           /\ \A k \in 1 .. DigitCount(Len(s)) : UrlEncode(s)[k] = ToUrl(Digit(s, k))
<1> DEFINE d == DigitCount(Len(s))
           u == UrlEncode(s)
<1>1. Len(s) \in Nat
  OBVIOUS
<1>2. d \in Nat /\ d <= 4 * ((Len(s) + 2) \div 3)
  BY <1>1, Counts
<1>3. ASSUME NEW k \in 1 .. d
      PROVE  u[k] = ToUrl(Digit(s, k)) /\ u[k] \in 0 .. 65
  <2>1. k \in 1 .. 4 * ((Len(s) + 2) \div 3) /\ k <= d /\ k \in Nat \ {0}
    BY <1>1, <1>2
  <2>2. Base64Encode(s)[k] = Digit(s, k)
    BY <2>1 DEF Base64Encode
  <2>3. u[k] = ToUrl(Digit(s, k))
    BY <2>2 DEF UrlEncode
  <2>4. Digit(s, k) \in Alphabet
    BY <2>1, DigitType
  <2> QED
    BY <2>3, <2>4, UrlCharacters
<1>4. u \in [1 .. d -> 0 .. 65]
  BY <1>3 DEF UrlEncode
<1> HIDE DEF d, u
<1>5. u \in Seq(0 .. 65) /\ Len(u) = d
  BY <1>2, <1>4, FunctionIsSeq
<1> QED
  BY <1>3, <1>5 DEF d, u

(* What base64url_encode wrote, base64url_decode reads.                    *)
THEOREM UrlRoundTrip ==
    ASSUME NEW s \in Seq(Byte)
    PROVE  UrlDecode(UrlEncode(s)) = s
<1> DEFINE d == DigitCount(Len(s))
           u == UrlEncode(s)
           n == 4 * ((d + 3) \div 4)
           w == [k \in 1 .. n |-> IF k <= d THEN FromUrl(u[k]) ELSE Pad]
<1>1. Len(s) \in Nat /\ d \in Nat /\ ByteCount(d) = Len(s)
  <2>1. Len(s) \in Nat
    OBVIOUS
  <2> QED
    BY <2>1, Counts
<1>2. Len(u) = d
  BY UrlEncodeType
<1>3. UrlDecode(u) = Base64Decode(w)
  BY <1>2 DEF UrlDecode
<1>4. n \in Nat /\ d <= n
  <2> HIDE DEF d
  <2> QED
    BY <1>1
<1>5. ASSUME NEW k \in 1 .. d
      PROVE  w[k] = Digit(s, k) /\ w[k] \in Alphabet
  <2>1. k \in 1 .. n /\ k <= d /\ k \in Nat \ {0}
    <3> HIDE DEF d, n
    <3> QED
      BY <1>1, <1>4
  <2>2. w[k] = FromUrl(u[k])
    BY <2>1
  <2>3. u[k] = ToUrl(Digit(s, k))
    BY UrlEncodeType
  <2>4. Digit(s, k) \in Alphabet
    BY <2>1, DigitType
  <2> HIDE DEF w, u
  <2> QED
    BY <2>2, <2>3, <2>4, UrlCharacters
<1>6. d < n => w[d + 1] \notin Alphabet
  <2> HIDE DEF d, n
  <2> QED
    BY <1>1, <1>4 DEF Pad, Alphabet
<1>7. Len(w) = n
  <2> HIDE DEF n, d, u
  <2> QED
    BY <1>4
<1> HIDE DEF w, n, d, u
<1>8. Readable(w) = d
  <2> DEFINE P(k) == /\ \A l \in 1 .. k : w[l] \in Alphabet
                     /\ k < n => w[k + 1] \notin Alphabet
  <2>1. d \in 0 .. n /\ P(d)
    BY <1>1, <1>4, <1>5, <1>6
  <2>2. ASSUME NEW k \in 0 .. n, P(k)
        PROVE  k = d
    <3>1. CASE k < d
      <4>1. k + 1 \in 1 .. d /\ k < n
        BY <1>1, <1>4, <3>1
      <4> QED
        BY <1>5, <2>2, <4>1
    <3>2. CASE d < k
      <4>1. d + 1 \in 1 .. k /\ d < n
        BY <1>1, <1>4, <3>2
      <4> QED
        BY <1>6, <2>2, <4>1
    <3> QED
      BY <1>1, <3>1, <3>2
  <2>3. Readable(w) = CHOOSE k \in 0 .. n : P(k)
    BY <1>7 DEF Readable
  <2> HIDE DEF P
  <2> QED
    BY <2>1, <2>2, <2>3
<1>9. ASSUME NEW k \in 1 .. d
      PROVE  Value(w, k) = Digit(s, k)
  BY <1>1, <1>5, <1>8, <1>9 DEF Value
<1>10. ASSUME NEW i \in 1 .. Len(s)
       PROVE  Decoded(w, i) = s[i]
  <2> DEFINE q == (i - 1) \div 3
             a == Octet(s, 3 * q + 1)
             b == Octet(s, 3 * q + 2)
             c == Octet(s, 3 * q + 3)
  <2>1. q \in Nat /\ i \in Nat /\ i <= Len(s)
    BY <1>1
  <2>2. s[i] = Octet(s, i)
    BY <2>1 DEF Octet
  <2>3. \/ i = 3 * q + 1 /\ (i - 1) % 3 = 0
        \/ i = 3 * q + 2 /\ (i - 1) % 3 = 1
        \/ i = 3 * q + 3 /\ (i - 1) % 3 = 2
    BY <2>1
  <2>4. a \in 0 .. 255 /\ b \in 0 .. 255 /\ c \in 0 .. 255
    <3> HIDE DEF q
    <3>1. 3 * q + 1 \in Nat \ {0} /\ 3 * q + 2 \in Nat \ {0} /\ 3 * q + 3 \in Nat \ {0}
      BY <2>1
    <3> QED
      BY <3>1, OctetType
  <2>5. Decoded(w, i) =
            CASE (i - 1) % 3 = 0 -> (4 * Value(w, 4 * q + 1) + ((Value(w, 4 * q + 2) \div 16) % 4)) % 256
              [] (i - 1) % 3 = 1 -> 16 * (Value(w, 4 * q + 2) % 16) + ((Value(w, 4 * q + 3) \div 4) % 16)
              [] (i - 1) % 3 = 2 -> (64 * (Value(w, 4 * q + 3) % 4) + Value(w, 4 * q + 4)) % 256
    BY DEF Decoded
  <2> HIDE DEF q
  <2>6. CASE i = 3 * q + 1 /\ (i - 1) % 3 = 0
    <3>1. 4 * q + 1 \in 1 .. d /\ 4 * q + 2 \in 1 .. d
      BY <1>1, <2>1, <2>6, DigitsSuffice DEF d
    <3>2. Value(w, 4 * q + 1) = a \div 4 /\ Value(w, 4 * q + 2) = 16 * (a % 4) + (b \div 16)
      BY <1>9, <2>1, <3>1, GroupDigits
    <3>3. Decoded(w, i) = (4 * Value(w, 4 * q + 1) + ((Value(w, 4 * q + 2) \div 16) % 4)) % 256
      BY <2>5, <2>6
    <3>4. s[i] = a
      BY <2>2, <2>6
    <3> HIDE DEF a, b, c
    <3>5. (4 * (a \div 4) + (((16 * (a % 4) + (b \div 16)) \div 16) % 4)) % 256 = a
      BY <2>4
    <3> QED
      BY <3>2, <3>3, <3>4, <3>5
  <2>7. CASE i = 3 * q + 2 /\ (i - 1) % 3 = 1
    <3>1. 4 * q + 2 \in 1 .. d /\ 4 * q + 3 \in 1 .. d
      BY <1>1, <2>1, <2>7, DigitsSuffice DEF d
    <3>2. /\ Value(w, 4 * q + 2) = 16 * (a % 4) + (b \div 16)
          /\ Value(w, 4 * q + 3) = 4 * (b % 16) + (c \div 64)
      BY <1>9, <2>1, <3>1, GroupDigits
    <3>3. Decoded(w, i) = 16 * (Value(w, 4 * q + 2) % 16) + ((Value(w, 4 * q + 3) \div 4) % 16)
      BY <2>5, <2>7
    <3>4. s[i] = b
      BY <2>2, <2>7
    <3> HIDE DEF a, b, c
    <3>5. 16 * ((16 * (a % 4) + (b \div 16)) % 16)
               + (((4 * (b % 16) + (c \div 64)) \div 4) % 16) = b
      BY <2>4
    <3> QED
      BY <3>2, <3>3, <3>4, <3>5
  <2>8. CASE i = 3 * q + 3 /\ (i - 1) % 3 = 2
    <3>1. 4 * q + 3 \in 1 .. d /\ 4 * q + 4 \in 1 .. d
      BY <1>1, <2>1, <2>8, DigitsSuffice DEF d
    <3>2. /\ Value(w, 4 * q + 3) = 4 * (b % 16) + (c \div 64)
          /\ Value(w, 4 * q + 4) = c % 64
      BY <1>9, <2>1, <3>1, GroupDigits
    <3>3. Decoded(w, i) = (64 * (Value(w, 4 * q + 3) % 4) + Value(w, 4 * q + 4)) % 256
      BY <2>5, <2>8
    <3>4. s[i] = c
      BY <2>2, <2>8
    <3> HIDE DEF a, b, c
    <3>5. (64 * ((4 * (b % 16) + (c \div 64)) % 4) + (c % 64)) % 256 = c
      BY <2>4
    <3> QED
      BY <3>2, <3>3, <3>4, <3>5
  <2> QED
    BY <2>3, <2>6, <2>7, <2>8
<1>11. Base64Decode(w) = [i \in 1 .. Len(s) |-> Decoded(w, i)]
  BY <1>1, <1>8 DEF Base64Decode
<1>12. s = [i \in 1 .. Len(s) |-> s[i]]
  OBVIOUS
<1> QED
  BY <1>3, <1>10, <1>11, <1>12 DEF u

-----------------------------------------------------------------------------
(* Tokens.  No encoded part holds a dot, so a token splits where it was    *)
(* joined and nowhere else.                                                *)

LEMMA SequencesEqual ==
    ASSUME NEW S, NEW a \in Seq(S), NEW b \in Seq(S), Len(a) = Len(b),
           \A k \in 1 .. Len(a) : a[k] = b[k]
    PROVE  a = b
<1>1. a = [k \in 1 .. Len(a) |-> a[k]] /\ b = [k \in 1 .. Len(b) |-> b[k]]
  OBVIOUS
<1> QED
  BY <1>1

LEMMA Joined ==
    ASSUME NEW a \in Seq(Char), NEW b \in Seq(Char)
    PROVE  LET t == a \o <<Dot>> \o b
           IN  /\ t \in Seq(Char)
               /\ Len(t) = Len(a) + 1 + Len(b)
               /\ \A k \in 1 .. Len(a) : t[k] = a[k]
               /\ t[Len(a) + 1] = Dot
               /\ \A k \in 1 .. Len(b) : t[Len(a) + 1 + k] = b[k]
               /\ SubSeq(t, 1, Len(a)) = a
               /\ SubSeq(t, Len(a) + 2, Len(t)) = b
<1> DEFINE m == a \o <<Dot>>
           t == m \o b
<1>1. <<Dot>> \in Seq(Char) /\ Len(<<Dot>>) = 1 /\ <<Dot>>[1] = Dot
  <2>1. Dot \in Char
    BY DEF Dot, Char
  <2> QED
    BY <2>1
<1>2. Len(a) \in Nat /\ Len(b) \in Nat
  OBVIOUS
<1>3. /\ m \in Seq(Char) /\ Len(m) = Len(a) + 1
      /\ \A k \in 1 .. Len(a) + 1 : m[k] = IF k <= Len(a) THEN a[k] ELSE <<Dot>>[k - Len(a)]
  BY <1>1, ConcatProperties
<1>4. /\ t \in Seq(Char) /\ Len(t) = Len(m) + Len(b)
      /\ \A k \in 1 .. Len(m) + Len(b) : t[k] = IF k <= Len(m) THEN m[k] ELSE b[k - Len(m)]
  BY <1>3, ConcatProperties
<1> HIDE DEF m, t
<1>5. \A k \in 1 .. Len(a) : t[k] = a[k]
  BY <1>2, <1>3, <1>4
<1>6. t[Len(a) + 1] = Dot
  <2>1. t[Len(a) + 1] = m[Len(a) + 1]
    BY <1>2, <1>3, <1>4
  <2>2. m[Len(a) + 1] = <<Dot>>[Len(a) + 1 - Len(a)]
    BY <1>2, <1>3
  <2>3. Len(a) + 1 - Len(a) = 1
    BY <1>2
  <2> QED
    BY <1>1, <2>1, <2>2, <2>3
<1>7. \A k \in 1 .. Len(b) : t[Len(a) + 1 + k] = b[k]
  <2> SUFFICES ASSUME NEW k \in 1 .. Len(b)
               PROVE  t[Len(a) + 1 + k] = b[k]
    OBVIOUS
  <2>1. Len(a) + 1 + k \in 1 .. Len(m) + Len(b) /\ ~ (Len(a) + 1 + k <= Len(m))
           /\ Len(a) + 1 + k - Len(m) = k
    BY <1>2, <1>3
  <2> QED
    BY <1>4, <2>1
<1>8. SubSeq(t, 1, Len(a)) = a
  <2> DEFINE c == SubSeq(t, 1, Len(a))
  <2>1. \A k \in 1 .. Len(a) : t[k] \in Char
    BY <1>2, <1>3, <1>4
  <2>2. /\ c \in Seq(Char)
        /\ Len(c) = IF 1 <= Len(a) THEN Len(a) - 1 + 1 ELSE 0
        /\ \A k \in 1 .. Len(a) - 1 + 1 : c[k] = t[1 + k - 1]
    BY <1>2, <2>1, SubSeqProperties
  <2> HIDE DEF c
  <2>3. Len(c) = Len(a) /\ \A k \in 1 .. Len(c) : c[k] = a[k]
    BY <1>2, <1>5, <2>2
  <2> QED
    BY <2>2, <2>3, SequencesEqual DEF c
<1>9. SubSeq(t, Len(a) + 2, Len(t)) = b
  <2> DEFINE c == SubSeq(t, Len(a) + 2, Len(t))
  <2>1. \A k \in Len(a) + 2 .. Len(t) : t[k] \in Char
    BY <1>2, <1>3, <1>4
  <2>2. Len(t) = Len(a) + 1 + Len(b)
    BY <1>2, <1>3, <1>4
  <2>3. /\ c \in Seq(Char)
        /\ Len(c) = IF Len(a) + 2 <= Len(t) THEN Len(t) - (Len(a) + 2) + 1 ELSE 0
        /\ \A k \in 1 .. Len(t) - (Len(a) + 2) + 1 : c[k] = t[Len(a) + 2 + k - 1]
    <3>1. Len(a) + 2 \in Int /\ Len(t) \in Int
      BY <1>2, <2>2
    <3> QED
      BY <2>1, <3>1, SubSeqProperties
  <2> HIDE DEF c
  <2>4. Len(c) = Len(b)
    BY <1>2, <2>2, <2>3
  <2>5. ASSUME NEW k \in 1 .. Len(c)
        PROVE  c[k] = b[k]
    <3>1. Len(a) + 2 + k - 1 = Len(a) + 1 + k /\ k \in 1 .. Len(b)
             /\ k \in 1 .. Len(t) - (Len(a) + 2) + 1
      BY <1>2, <2>2, <2>4
    <3> QED
      BY <1>7, <2>3, <3>1
  <2> QED
    BY <2>3, <2>4, <2>5, SequencesEqual DEF c
<1>10. Len(t) = Len(a) + 1 + Len(b)
  BY <1>2, <1>3, <1>4
<1> QED
  BY <1>4, <1>5, <1>6, <1>7, <1>8, <1>9, <1>10 DEF t, m

LEMMA UrlEncodeChars ==
    ASSUME NEW s \in Seq(Byte)
    PROVE  /\ UrlEncode(s) \in Seq(Char)
           /\ \A k \in 1 .. Len(UrlEncode(s)) : UrlEncode(s)[k] # Dot
<1> DEFINE u == UrlEncode(s)
<1>1. u \in Seq(0 .. 65)
  BY UrlEncodeType
<1> HIDE DEF u
<1>2. \A k \in 1 .. Len(u) : u[k] \in 0 .. 65
  BY <1>1, ElementOfSeq
<1>3. 0 .. 65 \subseteq Char
  BY DEF Char
<1>4. u \in Seq(Char)
  BY <1>1, <1>3, SeqMonotonic
<1>5. \A k \in 1 .. Len(u) : u[k] # Dot
  <2> SUFFICES ASSUME NEW k \in 1 .. Len(u)
               PROVE  u[k] # 67
    BY DEF Dot
  <2>1. u[k] \in 0 .. 65
    BY <1>2
  <2>2. 67 \notin 0 .. 65
    OBVIOUS
  <2> QED
    BY <2>1, <2>2, Zenon
<1> QED
  BY <1>4, <1>5 DEF u

(* A token opens to the payload it was made from, and to nothing else: the *)
(* claims a handler is given are those login or registration signed.       *)
THEOREM TokenOpens ==
    ASSUME NEW mac, NEW key, NEW header \in Seq(Byte), NEW payload \in Seq(Byte),
           mac[<<key, UnsignedToken(header, payload)>>] \in Seq(Byte), NEW read
    PROVE  Opens(mac, key, CreateToken(mac, key, header, payload), read) <=> read = payload
<1> DEFINE h == UrlEncode(header)
           p == UrlEncode(payload)
           text == h \o <<Dot>> \o p
           g == UrlEncode(mac[<<key, text>>])
           t == text \o <<Dot>> \o g
           i == Len(h) + 1
           j == Len(text) + 1
<1>1. t = CreateToken(mac, key, header, payload)
  BY DEF CreateToken, UnsignedToken
<1>2. h \in Seq(Char) /\ \A k \in 1 .. Len(h) : h[k] # Dot
  BY UrlEncodeChars
<1>3. p \in Seq(Char) /\ \A k \in 1 .. Len(p) : p[k] # Dot
  BY UrlEncodeChars
<1>4. g \in Seq(Char) /\ \A k \in 1 .. Len(g) : g[k] # Dot
  BY UrlEncodeChars DEF UnsignedToken
<1>5. UrlDecode(p) = payload
  BY UrlRoundTrip
<1>6. g = UrlEncode(mac[<<key, text>>])
  OBVIOUS
<1> HIDE DEF h, p, g
<1>7. /\ text \in Seq(Char) /\ Len(text) = Len(h) + 1 + Len(p)
      /\ \A k \in 1 .. Len(h) : text[k] = h[k]
      /\ text[i] = Dot
      /\ \A k \in 1 .. Len(p) : text[i + k] = p[k]
      /\ SubSeq(text, Len(h) + 2, Len(text)) = p
  BY <1>2, <1>3, Joined
<1> HIDE DEF text
<1>8. /\ t \in Seq(Char) /\ Len(t) = Len(text) + 1 + Len(g)
      /\ \A k \in 1 .. Len(text) : t[k] = text[k]
      /\ t[j] = Dot
      /\ \A k \in 1 .. Len(g) : t[j + k] = g[k]
      /\ SubSeq(t, 1, Len(text)) = text
      /\ SubSeq(t, Len(text) + 2, Len(t)) = g
  BY <1>4, <1>7, Joined, ZenonT(60)
<1> HIDE DEF t
<1>9. Len(h) \in Nat /\ Len(p) \in Nat /\ Len(g) \in Nat
  BY <1>2, <1>3, <1>4
<1>10. /\ i \in 1 .. Len(t) /\ j \in 1 .. Len(t) /\ i < j
       /\ i \in 1 .. Len(text) /\ j = i + Len(p) + 1
  BY <1>7, <1>8, <1>9
<1>11. SplitsAt(t, i, j)
  <2>1. t[i] = Dot
    BY <1>7, <1>8, <1>10
  <2>2. ASSUME NEW k \in 1 .. Len(t), k # i, k # j
        PROVE  t[k] # Dot
    <3>1. CASE k < i
      <4>1. k \in 1 .. Len(h) /\ k \in 1 .. Len(text)
        BY <1>7, <1>9, <3>1
      <4> QED
        BY <1>2, <1>7, <1>8, <4>1
    <3>2. CASE i < k /\ k < j
      <4>1. k - i \in 1 .. Len(p) /\ i + (k - i) = k /\ k \in 1 .. Len(text)
        BY <1>7, <1>9, <3>2
      <4>2. text[k] = p[k - i]
        BY <1>7, <4>1
      <4> QED
        BY <1>3, <1>8, <4>1, <4>2
    <3>3. CASE j < k
      <4>1. k - j \in 1 .. Len(g) /\ j + (k - j) = k
        BY <1>7, <1>8, <1>9, <3>3
      <4>2. t[k] = g[k - j]
        BY <1>8, <4>1
      <4> QED
        BY <1>4, <4>1, <4>2
    <3>4. k \in Int /\ i \in Int /\ j \in Int
      BY <1>7, <1>8, <1>9
    <3> HIDE DEF i, j
    <3> QED
      BY <1>10, <2>2, <3>1, <3>2, <3>3, <3>4
  <2> HIDE DEF i, j
  <2> QED
    BY <1>8, <1>10, <2>1, <2>2 DEF SplitsAt
<1>12. SubSeq(t, j + 1, Len(t)) = g /\ SubSeq(t, 1, j - 1) = text
  <2>1. j + 1 = Len(text) + 2 /\ j - 1 = Len(text)
    BY <1>7, <1>9
  <2> QED
    BY <1>8, <2>1
<1>13. SubSeq(t, i + 1, j - 1) = p
  <2> DEFINE c == SubSeq(t, i + 1, j - 1)
  <2>1. \A k \in i + 1 .. j - 1 : t[k] \in Char
    BY <1>8, <1>9, <1>10
  <2>2. /\ c \in Seq(Char)
        /\ Len(c) = IF i + 1 <= j - 1 THEN j - 1 - (i + 1) + 1 ELSE 0
        /\ \A k \in 1 .. j - 1 - (i + 1) + 1 : c[k] = t[i + 1 + k - 1]
    <3>1. i + 1 \in Int /\ j - 1 \in Int
      BY <1>9, <1>10
    <3> HIDE DEF i, j
    <3> QED
      BY <2>1, <3>1, SubSeqProperties
  <2> HIDE DEF c
  <2>3. Len(c) = Len(p)
    BY <1>9, <1>10, <2>2, SMTT(30)
  <2>4. ASSUME NEW k \in 1 .. Len(c)
        PROVE  c[k] = p[k]
    <3>1. k \in 1 .. j - 1 - (i + 1) + 1 /\ i + 1 + k - 1 = i + k /\ i + k \in 1 .. Len(text)
             /\ k \in 1 .. Len(p)
      BY <1>7, <1>9, <1>10, <2>3
    <3>2. c[k] = t[i + k] /\ t[i + k] = text[i + k]
      BY <1>8, <2>2, <3>1
    <3> QED
      BY <1>7, <3>1, <3>2
  <2> QED
    BY <1>3, <2>2, <2>3, <2>4, SequencesEqual DEF c
<1>14. SignatureHolds(mac, key, t, j)
  <2>1. SameText(g, g)
    BY DEF SameText
  <2> QED
    BY <1>6, <1>12, <2>1 DEF SignatureHolds
<1>15. ASSUME NEW a \in 1 .. Len(t), NEW b \in 1 .. Len(t), SplitsAt(t, a, b)
       PROVE  a = i /\ b = j
  <2>1. {a, b} = {i, j} /\ a < b
    BY <1>11, <1>15 DEF SplitsAt
  <2>2. a \in Int /\ b \in Int /\ i \in Int /\ j \in Int
    BY <1>7, <1>8, <1>9
  <2>3. (a = i /\ b = j) \/ (a = j /\ b = i)
    BY <2>1
  <2> HIDE DEF i, j
  <2> QED
    BY <1>10, <2>1, <2>2, <2>3
<1>16. Opens(mac, key, t, read) <=> read = UrlDecode(SubSeq(t, i + 1, j - 1))
  <2> HIDE DEF i, j
  <2>1. ASSUME Opens(mac, key, t, read)
        PROVE  read = UrlDecode(SubSeq(t, i + 1, j - 1))
    <3>1. PICK a, b \in 1 .. Len(t) :
              SplitsAt(t, a, b) /\ read = UrlDecode(SubSeq(t, a + 1, b - 1))
      BY <2>1 DEF Opens
    <3> QED
      BY <1>15, <3>1
  <2>2. ASSUME read = UrlDecode(SubSeq(t, i + 1, j - 1))
        PROVE  Opens(mac, key, t, read)
    BY <1>10, <1>11, <1>14, <2>2 DEF Opens
  <2> QED
    BY <2>1, <2>2
<1> QED
  BY <1>1, <1>5, <1>13, <1>16

(* The signature is compared as text, so there is one accepted spelling of *)
(* it: two accepted tokens that agree up to their second dot are the same. *)
THEOREM SignatureUnique ==
    ASSUME NEW mac, NEW key, NEW a \in Seq(Char), NEW b \in Seq(Char),
           NEW i \in Nat, NEW j \in 1 .. Len(a), j <= Len(b),
           SplitsAt(a, i, j), SplitsAt(b, i, j),
           SubSeq(a, 1, j - 1) = SubSeq(b, 1, j - 1),
           mac[<<key, SubSeq(a, 1, j - 1)>>] \in Seq(Byte),
           SignatureHolds(mac, key, a, j), SignatureHolds(mac, key, b, j)
    PROVE  a = b
<1> DEFINE g == UrlEncode(mac[<<key, SubSeq(a, 1, j - 1)>>])
           x == SubSeq(a, j + 1, Len(a))
           y == SubSeq(b, j + 1, Len(b))
<1>1. j \in Nat /\ Len(a) \in Nat /\ Len(b) \in Nat /\ 1 <= j /\ j <= Len(a)
  OBVIOUS
<1>2. /\ x \in Seq(Char)
      /\ Len(x) = IF j + 1 <= Len(a) THEN Len(a) - (j + 1) + 1 ELSE 0
      /\ \A k \in 1 .. Len(a) - (j + 1) + 1 : x[k] = a[j + 1 + k - 1]
  <2>1. \A k \in j + 1 .. Len(a) : a[k] \in Char
    BY <1>1
  <2> QED
    BY <1>1, <2>1, SubSeqProperties, SMTT(30)
<1>3. /\ y \in Seq(Char)
      /\ Len(y) = IF j + 1 <= Len(b) THEN Len(b) - (j + 1) + 1 ELSE 0
      /\ \A k \in 1 .. Len(b) - (j + 1) + 1 : y[k] = b[j + 1 + k - 1]
  <2>1. \A k \in j + 1 .. Len(b) : b[k] \in Char
    BY <1>1
  <2> QED
    BY <1>1, <2>1, SubSeqProperties, SMTT(30)
<1>4. g \in Seq(Char)
  BY UrlEncodeChars
<1>5. SameText(x, g) /\ SameText(y, g)
  BY DEF SignatureHolds
<1> HIDE DEF x, y, g
<1>6. x = g /\ y = g
  BY <1>2, <1>3, <1>4, <1>5, SameTextIsEqual
<1>7. Len(a) = Len(b)
  BY <1>1, <1>2, <1>3, <1>6
<1>8. ASSUME NEW k \in 1 .. Len(a)
      PROVE  a[k] = b[k]
  <2>1. CASE k < j
    <3> DEFINE c == SubSeq(a, 1, j - 1)
               d == SubSeq(b, 1, j - 1)
    <3>1. \A n \in 1 .. j - 1 : c[n] = a[n]
      <4>1. \A n \in 1 .. j - 1 : a[n] \in Char
        BY <1>1
      <4>2. \A n \in 1 .. j - 1 - 1 + 1 : c[n] = a[1 + n - 1]
        BY <1>1, <4>1, SubSeqProperties
      <4> QED
        BY <1>1, <4>2
    <3>2. \A n \in 1 .. j - 1 : d[n] = b[n]
      <4>1. \A n \in 1 .. j - 1 : b[n] \in Char
        BY <1>1
      <4>2. \A n \in 1 .. j - 1 - 1 + 1 : d[n] = b[1 + n - 1]
        BY <1>1, <4>1, SubSeqProperties
      <4> QED
        BY <1>1, <4>2
    <3>3. k \in 1 .. j - 1 /\ c = d
      BY <1>1, <2>1
    <3> HIDE DEF c, d
    <3> QED
      BY <3>1, <3>2, <3>3
  <2>2. CASE k = j
    BY <2>2 DEF SplitsAt
  <2>3. CASE j < k
    <3>1. k - j \in 1 .. Len(a) - (j + 1) + 1 /\ j + 1 + (k - j) - 1 = k
      BY <1>1, <2>3
    <3>2. x[k - j] = a[k] /\ y[k - j] = b[k]
      BY <1>2, <1>3, <1>7, <3>1
    <3> QED
      BY <1>6, <3>2
  <2> QED
    BY <1>1, <2>1, <2>2, <2>3
<1> QED
  BY <1>7, <1>8, SequencesEqual
=============================================================================
