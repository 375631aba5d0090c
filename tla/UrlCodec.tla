------------------------------- MODULE UrlCodec -------------------------------
(***************************************************************************)
(* urlEncode and urlDecode of common/ModuleCrypto.cc.  A text is a         *)
(* sequence of bytes.  Both are loops; the decoder's advances its iterator *)
(* inside, too.                                                            *)
(***************************************************************************)
EXTENDS Naturals, Sequences

CONSTANTS
  Plains,   (* texts that are encoded, and then decoded                    *)
  Texts,    (* other texts that are decoded                                *)
  NoText    (* in plain: data comes from elsewhere                         *)

Byte == 0..255

ASSUME TextsAssumption ==
  /\ Plains \subseteq Seq(Byte) /\ Texts \subseteq Seq(Byte)
  /\ NoText \notin Plains

VARIABLES
  plain,    (* the argument of urlEncode, or NoText                        *)
  data,     (* its result so far, and the argument of urlDecode            *)
  it,       (* the iterator of the loop, as a position                     *)
  result,   (* what is decoded so far                                      *)
  state     (* encode, decode, done, or undefined: a read behind the text  *)

vars == <<plain, data, it, result, state>>

Space == 32
Percent == 37
Plus == 43

Digits == 48..57
UpperCase == 65..90
LowerCase == 97..122

(* The letters, the digits and - . _ ~ stand for themselves. *)
Unreserved == Digits \cup UpperCase \cup LowerCase \cup {45, 46, 95, 126}

(* A digit of an escape, 0 to F. *)
HexDigit(n) == IF n > 9 THEN n + 55 ELSE n + 48

(* Mutant: a plus is left as it is. *)
EncodedPlus(c) ==
  IF c \in Unreserved \cup {Plus} THEN <<c>>
  ELSE IF c = Space THEN <<Plus>>
  ELSE <<Percent, HexDigit(c \div 16), HexDigit(c % 16)>>

(* What a byte is written as. *)
Encoded(c) ==
  IF c \in Unreserved THEN <<c>>
  ELSE IF c = Space THEN <<Plus>>
  ELSE <<Percent, HexDigit(c \div 16), HexDigit(c % 16)>>

Init ==
  /\ \/ plain \in Plains /\ data = <<>> /\ state = "encode"
     \/ plain = NoText /\ data \in Texts /\ state = "decode"
  /\ it = 1
  /\ result = <<>>

-----------------------------------------------------------------------------
(* One turn of urlEncode's loop. *)

Encode ==
  /\ state = "encode" /\ it <= Len(plain)
  /\ data' = data \o Encoded(plain[it])
  /\ it' = it + 1
  /\ UNCHANGED <<plain, result, state>>

(* What it returns is decoded. *)
EncodeReturn ==
  /\ state = "encode" /\ it = Len(plain) + 1
  /\ state' = "decode" /\ it' = 1
  /\ UNCHANGED <<plain, data, result>>

-----------------------------------------------------------------------------
(* One turn of urlDecode's loop. *)

Reads(c) == state = "decode" /\ it <= Len(data) /\ data[it] = c

Copy ==
  /\ \E c \in Unreserved : Reads(c) /\ result' = Append(result, c)
  /\ it' = it + 1
  /\ UNCHANGED <<plain, data, state>>

DecodePlus ==
  /\ Reads(Plus)
  /\ result' = Append(result, Space)
  /\ it' = it + 1
  /\ UNCHANGED <<plain, data, state>>

(* Any other byte is dropped. *)
Drop ==
  /\ \E c \in Byte \ (Unreserved \cup {Plus, Percent}) : Reads(c)
  /\ it' = it + 1
  /\ UNCHANGED <<plain, data, result, state>>

(* A byte that is no digit adds nothing to the sum. *)
HexValue(c) ==
  IF c \in Digits THEN c - 48
  ELSE IF c \in 65..70 THEN c - 55
  ELSE IF c \in 97..102 THEN c - 87
  ELSE 0

(* Mutant: one byte more is asked for than is read. *)
CutEarly == it + 2 >= Len(data)

(* The two bytes after a percent sign are not all in the text.  With one   *)
(* missing, the terminator is read and the loop goes on behind it; with    *)
(* both missing, the inner loop reads behind it.                           *)
Cut == it + 2 > Len(data)

DecodePercent ==
  /\ Reads(Percent) /\ ~Cut
  /\ result' = Append(result, HexValue(data[it + 1]) * 16 + HexValue(data[it + 2]))
  /\ it' = it + 3
  /\ UNCHANGED <<plain, data, state>>

Overrun ==
  /\ Reads(Percent) /\ Cut
  /\ state' = "undefined"
  /\ UNCHANGED <<plain, data, it, result>>

Return ==
  /\ state = "decode" /\ it = Len(data) + 1
  /\ state' = "done"
  /\ UNCHANGED <<plain, data, it, result>>

Next ==
  \/ Encode \/ EncodeReturn
  \/ Copy \/ DecodePlus \/ Drop \/ DecodePercent \/ Overrun \/ Return

Spec == Init /\ [][Next]_vars

-----------------------------------------------------------------------------
(* Properties. *)

(* Decoding what urlEncode wrote gives the text back, for every byte.      *)
RoundTrip == plain # NoText /\ state = "done" => result = plain

(* The decoder reads behind a text only if it ends in the middle of an     *)
(* escape, which no encoded text does (line 433).                          *)
OverrunOnlyCut ==
  state = "undefined" =>
    /\ plain = NoText
    /\ \E i \in DOMAIN data : data[i] = Percent /\ i >= Len(data) - 1
=============================================================================
