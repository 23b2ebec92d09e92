------------------------------ MODULE Encoding ------------------------------
(***************************************************************************)
(* The encodings that tokens and stored passwords pass through:            *)
(* crypto::to_hex, from_hex, base64(url)_encode and base64(url)_decode,    *)
(* JwtManager's signed tokens and PasswordHasher's stored hashes.          *)
(*                                                                         *)
(* Bytes are 0 .. 255.  A character is a number: its value in the base64   *)
(* alphabet, 62 for '+' and 63 for '/', then the five other characters     *)
(* these functions tell apart.  A hexadecimal digit is 0 .. 15.  The       *)
(* hashes are parameters: mac[<<key, text>>] is hmac_sha256_bytes and      *)
(* kdf[<<password, salt, iterations>>] is pbkdf2_hmac_sha256.              *)
(***************************************************************************)
EXTENDS Integers, Sequences, FiniteSets

Byte == 0 .. 255

Alphabet == 0 .. 63
Minus == 64
Underscore == 65
Pad == 66
Dot == 67
Char == 0 .. 68

-----------------------------------------------------------------------------
(* Hexadecimal                                                             *)

ToHex(s) ==
    [k \in 1 .. 2 * Len(s) |->
        IF k % 2 = 1 THEN s[(k + 1) \div 2] \div 16 ELSE s[k \div 2] % 16]

(* Two digits at a time; a last digit alone is a byte of its own.          *)
FromHex(h) ==
    [i \in 1 .. (Len(h) + 1) \div 2 |->
        IF 2 * i <= Len(h) THEN 16 * h[2 * i - 1] + h[2 * i] ELSE h[2 * i - 1]]

(* constant_time_compare                                                   *)
SameText(a, b) ==
    /\ Len(a) = Len(b)
    /\ \A i \in 1 .. Len(a) : a[i] = b[i]

-----------------------------------------------------------------------------
(* Base64                                                                  *)

(* Three bytes make four digits; one left over makes two, two make three.  *)
DigitCount(n) == 4 * (n \div 3) + (IF n % 3 = 0 THEN 0 ELSE (n % 3) + 1)

Octet(s, i) == IF i <= Len(s) THEN s[i] ELSE 0

Digit(s, k) ==
    LET g == 3 * ((k - 1) \div 4)
    IN  CASE (k - 1) % 4 = 0 -> Octet(s, g + 1) \div 4
          [] (k - 1) % 4 = 1 -> 16 * (Octet(s, g + 1) % 4) + Octet(s, g + 2) \div 16
          [] (k - 1) % 4 = 2 -> 4 * (Octet(s, g + 2) % 16) + Octet(s, g + 3) \div 64
          [] (k - 1) % 4 = 3 -> Octet(s, g + 3) % 64

Base64Encode(s) ==
    [k \in 1 .. 4 * ((Len(s) + 2) \div 3) |->
        IF k <= DigitCount(Len(s)) THEN Digit(s, k) ELSE Pad]

(* Reading stops at the first character that is not of the alphabet.       *)
Readable(c) ==
    CHOOSE n \in 0 .. Len(c) :
        /\ \A k \in 1 .. n : c[k] \in Alphabet
        /\ n < Len(c) => c[n + 1] \notin Alphabet

(* A single character left over is dropped.                                *)
ByteCount(n) == 3 * (n \div 4) + (IF n % 4 = 0 THEN 0 ELSE (n % 4) - 1)

(* A missing character is looked up as '\0', which is not in the alphabet: *)
(* npos, cut to a byte.                                                    *)
Value(c, k) == IF k <= Readable(c) THEN c[k] ELSE 255

Decoded(c, i) ==
    LET g == 4 * ((i - 1) \div 3)
    IN  CASE (i - 1) % 3 = 0 -> (4 * Value(c, g + 1) + ((Value(c, g + 2) \div 16) % 4)) % 256
          [] (i - 1) % 3 = 1 -> 16 * (Value(c, g + 2) % 16) + ((Value(c, g + 3) \div 4) % 16)
          [] (i - 1) % 3 = 2 -> (64 * (Value(c, g + 3) % 4) + Value(c, g + 4)) % 256

Base64Decode(c) == [i \in 1 .. ByteCount(Readable(c)) |-> Decoded(c, i)]

-----------------------------------------------------------------------------
(* Base64url                                                               *)

ToUrl(c) == IF c = 62 THEN Minus ELSE IF c = 63 THEN Underscore ELSE c

FromUrl(c) == IF c = Minus THEN 62 ELSE IF c = Underscore THEN 63 ELSE c

(* The padding, which comes last, is left away.                            *)
UrlEncode(s) == [k \in 1 .. DigitCount(Len(s)) |-> ToUrl(Base64Encode(s)[k])]

(* Padded to a multiple of four.                                           *)
UrlDecode(c) ==
    Base64Decode([k \in 1 .. 4 * ((Len(c) + 3) \div 4) |->
                    IF k <= Len(c) THEN FromUrl(c[k]) ELSE Pad])

-----------------------------------------------------------------------------
(* Tokens                                                                  *)

(* JwtManager::create_token: header and payload are the bytes of the JSON. *)
UnsignedToken(header, payload) == UrlEncode(header) \o <<Dot>> \o UrlEncode(payload)

CreateToken(mac, key, header, payload) ==
    LET text == UnsignedToken(header, payload)
    IN  text \o <<Dot>> \o UrlEncode(mac[<<key, text>>])

(* first_dot and second_dot, of a token that has exactly two.              *)
SplitsAt(token, i, j) ==
    /\ i < j
    /\ {k \in 1 .. Len(token) : token[k] = Dot} = {i, j}

SignatureHolds(mac, key, token, j) ==
    SameText(SubSeq(token, j + 1, Len(token)), UrlEncode(mac[<<key, SubSeq(token, 1, j - 1)>>]))

(* verify_token gets past the signature, with this payload.                *)
Opens(mac, key, token, payload) ==
    \E i, j \in 1 .. Len(token) :
        /\ SplitsAt(token, i, j)
        /\ SignatureHolds(mac, key, token, j)
        /\ payload = UrlDecode(SubSeq(token, i + 1, j - 1))

-----------------------------------------------------------------------------
(* Stored passwords                                                        *)

(* PasswordHasher::hash_password, the fields between the dollar signs.     *)
HashPassword(kdf, password, salt, iterations) ==
    [iterations |-> iterations, salt |-> ToHex(salt),
     key |-> ToHex(kdf[<<password, salt, iterations>>])]

VerifyPassword(kdf, password, stored) ==
    LET salt == FromHex(stored.salt)
    IN  /\ salt # <<>>
        /\ SameText(ToHex(kdf[<<password, salt, stored.iterations>>]), stored.key)
=============================================================================
