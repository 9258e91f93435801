------------------------------- MODULE Decode -------------------------------
(***************************************************************************)
(* decode_xml_bytes: from bytes to characters (code points), by byte order *)
(* mark, or by the first two bytes, or else as UTF-8.  UTF-8 and UTF-16    *)
(* themselves are the standard library's; code points above the basic      *)
(* plane are left out, so a surrogate never has a partner.                 *)
(***************************************************************************)
EXTENDS Integers, Sequences, SequencesExt

CONSTANT Malformed     \* what bytes that are no text decode to

(* Characters; those of an XML document do not include U+0000.             *)
CodePoint == (0 .. 65535) \ (55296 .. 57343)

Char == CodePoint \ {0}

ASSUME DecodeAssumption == Malformed \notin Seq(CodePoint)

Starts(prefix, s) == IsPrefix(prefix, s)

Cont(b) == b \in 128 .. 191

(* One UTF-8 character at the head of s: how many bytes, which character.  *)
HeadUtf8(s) ==
  IF s[1] < 128 THEN [len |-> 1, ch |-> s[1]]
  ELSE IF s[1] \in 194 .. 223 /\ Len(s) >= 2 /\ Cont(s[2])
    THEN [len |-> 2, ch |-> (s[1] - 192) * 64 + s[2] - 128]
  ELSE IF /\ s[1] \in 224 .. 239 /\ Len(s) >= 3 /\ Cont(s[2]) /\ Cont(s[3])
          /\ s[1] = 224 => s[2] >= 160
          /\ s[1] = 237 => s[2] <= 159
    THEN [len |-> 3, ch |-> (s[1] - 224) * 4096 + (s[2] - 128) * 64 + s[3] - 128]
  ELSE [len |-> 0, ch |-> 0]

Rest(s, n) == SubSeq(s, n + 1, Len(s))

(* Character by character, as long as there are bytes.                     *)
DecodeUtf8(s) ==
  LET read[i \in 0 .. Len(s)] ==
        IF i = 0 THEN [text |-> <<>>, rest |-> s]
        ELSE LET sofar == read[i - 1]
                 h     == HeadUtf8(sofar.rest)
             IN  IF sofar.rest = <<>> THEN sofar
                 ELSE IF h.len = 0 THEN [text |-> Malformed, rest |-> <<>>]
                 ELSE [text |-> Append(sofar.text, h.ch), rest |-> Rest(sofar.rest, h.len)]
  IN  read[Len(s)].text

Unit(a, b, bigEndian) == IF bigEndian THEN a * 256 + b ELSE b * 256 + a

(* Pairs of bytes; a lone surrogate is malformed.                          *)
DecodePairs(s, bigEndian) ==
  LET units == [i \in 1 .. Len(s) \div 2 |-> Unit(s[2 * i - 1], s[2 * i], bigEndian)]
  IN  IF \E i \in DOMAIN units : units[i] \in 55296 .. 57343 THEN Malformed ELSE units

DecodeUtf16(s, bigEndian) ==
  IF Len(s) % 2 # 0 THEN Malformed ELSE DecodePairs(s, bigEndian)

(* Byte order marks only.                                                  *)
DecodeMarkedBytes(s) ==
  CASE Starts(<<255, 254>>, s)      -> DecodeUtf16(Rest(s, 2), FALSE)
    [] Starts(<<254, 255>>, s)      -> DecodeUtf16(Rest(s, 2), TRUE)
    [] Starts(<<239, 187, 191>>, s) -> DecodeUtf8(Rest(s, 3))
    [] OTHER                        -> DecodeUtf8(s)

DecodeXmlBytes(s) ==
  CASE Len(s) < 2                  -> DecodeUtf8(s)
    [] Starts(<<255, 254>>, s)     -> DecodeUtf16(Rest(s, 2), FALSE)
    [] Starts(<<254, 255>>, s)     -> DecodeUtf16(Rest(s, 2), TRUE)
    [] Starts(<<239, 187, 191>>, s) -> DecodeUtf8(Rest(s, 3))
    [] Starts(<<0, 60>>, s)        -> DecodeUtf16(s, TRUE)
    [] Starts(<<60, 0>>, s)        -> DecodeUtf16(s, FALSE)
    [] OTHER                       -> DecodeUtf8(s)

-----------------------------------------------------------------------------
(* Reference: the encodings a document may come in, in the other direction.*)

EncodeUtf8Char(c) ==
  IF c < 128 THEN <<c>>
  ELSE IF c < 2048 THEN <<192 + (c \div 64), 128 + (c % 64)>>
  ELSE <<224 + (c \div 4096), 128 + ((c \div 64) % 64), 128 + (c % 64)>>

EncodeChar(c, form) ==
  CASE form = "utf8" -> EncodeUtf8Char(c)
    [] form = "be"   -> <<c \div 256, c % 256>>
    [] form = "le"   -> <<c % 256, c \div 256>>

Mark == 65279     \* U+FEFF

Encoding == {"utf8", "be", "le"} \X BOOLEAN

Encode(text, encoding) ==
  LET chars == IF encoding[2] THEN <<Mark>> \o text ELSE text
      bytes[i \in 0 .. Len(chars)] ==
        IF i = 0 THEN <<>> ELSE bytes[i - 1] \o EncodeChar(chars[i], encoding[1])
  IN  bytes[Len(chars)]
=============================================================================
