-------------------------------- MODULE Utf8 --------------------------------
(***************************************************************************)
(* The decoder of libs/regex/regex.c: a text of bytes becomes code points  *)
(* and the offset of each, and the number of bytes as a last offset.  What *)
(* is no well formed character is taken one byte at a time.                *)
(***************************************************************************)
EXTENDS Integers, Sequences

\* Mutant: overlong forms of two bytes are taken.
MutDecodeOne(bytes, i) ==
  LET c(k) == bytes[i + k + 1]
      two  == c(0) \div 32 = 6 /\ i + 1 < Len(bytes) /\ c(1) \div 64 = 2
  IN IF two THEN [code |-> (c(0) % 32) * 64 + (c(1) % 64), next |-> i + 2]
     ELSE [code |-> c(0), next |-> i + 1]

\* The code point at index i, counted from 0, and the index behind it.
DecodeOne(bytes, i) ==
  LET c(k)    == bytes[i + k + 1]
      tail(n) == i + n < Len(bytes) /\ \A k \in 1 .. n : c(k) \div 64 = 2
      low(k)  == c(k) % 64
      two     == (c(0) % 32) * 64 + low(1)
      three   == (c(0) % 16) * 4096 + low(1) * 64 + low(2)
      four    == (c(0) % 8) * 262144 + low(1) * 4096 + low(2) * 64 + low(3)
      took(code, n) == [code |-> code, next |-> i + n]
  IN IF c(0) \div 32 = 6 /\ tail(1) /\ two >= 128 THEN took(two, 2)
     ELSE IF c(0) \div 16 = 14 /\ tail(2) /\ three >= 2048 THEN took(three, 3)
     ELSE IF c(0) \div 8 = 30 /\ tail(3) /\ four \in 65536 .. 1114111 THEN took(four, 4)
     ELSE took(c(0), 1)

RECURSIVE TextFrom(_, _, _)
TextFrom(bytes, i, view) ==
  LET one == DecodeOne(bytes, i)
  IN IF i >= Len(bytes) THEN [view EXCEPT !.offsets = Append(@, Len(bytes))]
     ELSE TextFrom(bytes, one.next, [codepoints |-> Append(view.codepoints, one.code),
                                     offsets |-> Append(view.offsets, i)])
TextInit(bytes) == TextFrom(bytes, 0, [codepoints |-> <<>>, offsets |-> <<>>])

\* The bytes of a code point, and the byte sequences of more than one byte
\* that are such bytes (the surrogates among them, which the code lets pass).
Encode(code) ==
  LET tail(n) == 128 + ((code \div n) % 64)
  IN IF code < 128 THEN <<code>>
     ELSE IF code < 2048 THEN <<192 + code \div 64, tail(1)>>
     ELSE IF code < 65536 THEN <<224 + code \div 4096, tail(64), tail(1)>>
     ELSE <<240 + code \div 262144, tail(4096), tail(64), tail(1)>>

WellFormed(s) ==
  /\ \A k \in 2 .. Len(s) : s[k] \in 128 .. 191
  /\ \/ Len(s) = 2 /\ s[1] \in 194 .. 223
     \/ Len(s) = 3 /\ s[1] \in 224 .. 239 /\ (s[1] = 224 => s[2] >= 160)
     \/ Len(s) = 4 /\ s[1] \in 240 .. 244 /\ (s[1] = 240 => s[2] >= 144)
                   /\ (s[1] = 244 => s[2] <= 143)

\* Decoding cuts a text where the characters end: a piece of several bytes is
\* a well formed character and has its code, and a byte taken alone begins no
\* well formed character.
Decodes(bytes) ==
  LET view == TextInit(bytes)
      piece(k) == SubSeq(bytes, view.offsets[k] + 1, view.offsets[k + 1])
      ahead(k, n) == SubSeq(bytes, view.offsets[k] + 1, view.offsets[k] + n)
  IN \A k \in DOMAIN view.codepoints :
       IF Len(piece(k)) = 1
       THEN /\ view.codepoints[k] = piece(k)[1]
            /\ \A n \in 2 .. 4 : view.offsets[k] + n <= Len(bytes) => ~WellFormed(ahead(k, n))
       ELSE WellFormed(piece(k)) /\ Encode(view.codepoints[k]) = piece(k)
=============================================================================
